---- MODULE Spec2Model ----
(***************************************************************************)
(* A model of the frida address-sanitizer runtime of libafl_frida          *)
(* (src/libafl_frida/src/asan_rt.rs): the shadow-memory allocator, the     *)
(* process-wide error buffer and the runtime operations that drive them.   *)
(*                                                                         *)
(* Addresses are scaled down so that the state space is finite: a page is  *)
(* page_size bytes, the shadow bit probed by Allocator::setup is one of    *)
(* ShadowBitHigh / ShadowBitLow (46 / 36 in the program) and the address   *)
(* space of the process has 2^(ShadowBitLow+3) bytes, so that every        *)
(* address has a shadow byte of its own under either shadow bit.           *)
(* A shadow byte covers 8 bytes; bit (7-k) of it stands for byte k of the  *)
(* group (the convention of Allocator::unpoison and of the generated       *)
(* checkers, which bit-reverse the byte before shifting by addr & 7).      *)
(***************************************************************************)
EXTENDS Integers, Sequences, FiniteSets, TLC

\* ------------------------------------------------------------------------
\* Program constants (scaled) and bounds of the model
\* ------------------------------------------------------------------------

\* sysconf(_SC_PAGESIZE), scaled
page_size == 16

\* the shadow bits probed by Allocator::setup (46 and 36), scaled
ShadowBitHigh == 6

ShadowBitLow == 5

\* the largest request alloc accepts: 1 << 30
MaxAllocSize == 1073741824

\* pages 1..HeapPages are the ones an anonymous mmap may hand out
HeapPages == 7

\* the error buffer is explored up to this length
MaxErrors == 2

\* the runs are explored up to this number of operations
MaxSteps == 6

\* the mapping that exists before the runtime is initialised (the stack of
\* the main thread): the two topmost pages of the address space
AddressSpace == 2 ^ (ShadowBitLow + 3)

StackStart == AddressSpace - 2 * page_size

StackEnd == AddressSpace

\* the request sizes of the explored calls
AllocSizes == {0, 3, 21, 50, MaxAllocSize + 1}

AllocAlignments == {8, 32}

\* the outcomes of the probing in Allocator::setup that are explored, each
\* with a setting of enable_asan_allocation_backtraces:
\* <<shadow_bit, pre_allocated_shadow, enable_asan_allocation_backtraces>>
Setups == {<<ShadowBitHigh, TRUE, TRUE>>, <<ShadowBitLow, FALSE, FALSE>>}

VARIABLES
    shadow_bit,          \* Allocator.shadow_bit
    shadow_offset,       \* Allocator.shadow_offset
    pre_allocated_shadow,\* Allocator.pre_allocated_shadow
    shadow_pages,        \* Allocator.shadow_pages: the shadow addresses backed
    allocations,         \* Allocator.allocations: key -> AllocationMetadata
    allocation_queue,    \* Allocator.allocation_queue: actual_size -> Vec
    largest_allocation,  \* Allocator.largest_allocation
    shadow,              \* the shadow memory: shadow address -> byte
    maps,                \* the process's mappings: set of [start, end]
    options,             \* AsanRuntime.options (FridaOptions)
    ASAN_ERRORS,         \* static mut ASAN_ERRORS: Option<AsanErrors>
    hooked,              \* the hooks are installed (AsanRuntime::init ran)
    proc,                \* "running" or "terminated" (after a panic)
    last,                \* the operation that produced this state
    steps,               \* the number of operations performed so far
    stalked_addresses,   \* AsanRuntime.stalked_addresses: stalked -> real
    observer,            \* the AsanErrorsObserver of the fuzzer
    feedback,            \* the AsanErrorsFeedback of the fuzzer
    testcase,            \* the AsanErrors metadata of the test case that
                         \* append_metadata was last called with
    performed,           \* the calls of Stage::perform made so far
    launched             \* the processes started by Launcher::launch

vars == <<shadow_bit, shadow_offset, pre_allocated_shadow, shadow_pages,
          allocations, allocation_queue, largest_allocation, shadow, maps,
          options, ASAN_ERRORS, hooked, proc, last, steps,
          stalked_addresses, observer, feedback, testcase,
          performed, launched>>

allocVars == <<allocations, allocation_queue, largest_allocation, shadow,
               shadow_pages, maps>>

setupVars == <<shadow_bit, shadow_offset, pre_allocated_shadow, options>>

libaflVars == <<performed, launched>>

fuzzerVars == <<observer, feedback, testcase, libaflVars>>

\* ------------------------------------------------------------------------
\* Data
\* ------------------------------------------------------------------------

\* AllocationMetadata::default()
DefaultMetadata ==
    [address |-> 0, size |-> 0, actual_size |-> 0,
     allocation_site_backtrace |-> "None", release_site_backtrace |-> "None",
     freed |-> FALSE, is_malloc_zero |-> FALSE]

\* the history record of an operation
Op(op, ptr, size, ret, reused) ==
    [op |-> op, ptr |-> ptr, size |-> size, ret |-> ret, reused |-> reused]

\* AsanError variants (backtraces and register snapshots are not modelled)
DoubleFree(ptr, metadata) == [kind |-> "DoubleFree", ptr |-> ptr, metadata |-> metadata]

UnallocatedFree(ptr) == [kind |-> "UnallocatedFree", ptr |-> ptr, metadata |-> DefaultMetadata]

Leak(address, metadata) == [kind |-> "Leak", ptr |-> address, metadata |-> metadata]

\* HashMap::new()
EmptyMap == [k \in {} |-> DefaultMetadata]

\* HashMap::insert
Insert(map, key, value) ==
    [k \in DOMAIN map \cup {key} |-> IF k = key THEN value ELSE map[k]]

Max(a, b) == IF a >= b THEN a ELSE b

\* the orders in which a HashMap may hand out the keys in S
Orders(S) ==
    {s \in [1..Cardinality(S) -> S] : \A i, j \in DOMAIN s : i # j => s[i] # s[j]}

\* ------------------------------------------------------------------------
\* Shadow memory
\* ------------------------------------------------------------------------

\* map_to_shadow! without the shift by 3
map_to_shadow_unshifted(address) ==
    (address + shadow_offset) % (2 ^ (shadow_bit + 1))

map_to_shadow(address) ==
    ((address \div 8) + shadow_offset) % (2 ^ (shadow_bit + 1))

\* byte b is marked addressable in the shadow memory mem: bit 7 - (b & 7)
\* of its shadow byte is set
Addressable(mem, b) == (mem[map_to_shadow(b)] \div (2 ^ (7 - (b % 8)))) % 2 = 1

round_up_to_page(size) == ((size + page_size) \div page_size) * page_size

round_down_to_page(value) == (value \div page_size) * page_size

\* libc memset on shadow memory
memset(mem, start, c, n) ==
    [a \in DOMAIN mem |-> IF a >= start /\ a < start + n THEN c ELSE mem[a]]

\* unpoison with the bits of the trailing byte at the wrong end
unpoison_low_bits(mem, start, size) ==
    LET full == memset(mem, start, 255, size \div 8)
        remainder == size % 8
    IN IF remainder > 0
       THEN memset(full, start + size \div 8, 2 ^ remainder - 1, 1)
       ELSE full

unpoison(mem, start, size) ==
    LET full == memset(mem, start, 255, size \div 8)
        remainder == size % 8
    IN IF remainder > 0
       THEN memset(full, start + size \div 8, (255 * 2 ^ (8 - remainder)) % 256, 1)
       ELSE full

\* poison without the trailing byte
poison_whole_bytes(mem, start, size) == memset(mem, start, 0, size \div 8)

poison(mem, start, size) ==
    LET full == memset(mem, start, 0, size \div 8)
        remainder == size % 8
    IN IF remainder > 0
       THEN memset(full, start + size \div 8, 0, 1)
       ELSE full

\* the shadow addresses map_shadow_for_region makes sure are backed
ShadowRangeFor(start, end) ==
    LET shadow_start == round_down_to_page(map_to_shadow(start))
        shadow_end == round_up_to_page((end - start) \div 8) + page_size + shadow_start
    IN shadow_start .. (shadow_end - 1)

\* map_shadow_for_region: <<shadow_pages, shadow>> afterwards
map_shadow_for_region(pages, mem, start, end, do_unpoison) ==
    LET range == ShadowRangeFor(start, end)
        gaps == range \ pages
        pages1 == IF pre_allocated_shadow THEN pages ELSE pages \cup range
        mem1 == IF pre_allocated_shadow THEN mem
                ELSE [a \in DOMAIN mem |-> IF a \in gaps THEN 0 ELSE mem[a]]
        mem2 == IF do_unpoison THEN unpoison(mem1, map_to_shadow(start), end - start)
                ELSE mem1
    IN <<pages1, mem2>>

\* ------------------------------------------------------------------------
\* Initial state: after AsanRuntime::new (and so Allocator::setup)
\* ------------------------------------------------------------------------

\* Option<AsanErrors>: None and Some(AsanErrors { errors })
None == [is_some |-> FALSE, errors |-> <<>>]

Some(errors) == [is_some |-> TRUE, errors |-> errors]

\* OwnedPtr::Ptr(&ASAN_ERRORS), as built by AsanErrorsObserver::new, and
\* OwnedPtr::Owned(Box::new(errors)), as built by AsanErrorsObserver::new_owned
Ptr == [tag |-> "Ptr", owned |-> None]

Owned(errors) == [tag |-> "Owned", owned |-> errors]

\* the state of the process after AsanRuntime::new
new ==
    /\ \E setup \in Setups, continue \in BOOLEAN :
          /\ shadow_bit = setup[1]
          /\ pre_allocated_shadow = setup[2]
          /\ options = [asan_continue_after_error |-> continue,
                        enable_asan_allocation_backtraces |-> setup[3]]
    /\ shadow_offset = 2 ^ shadow_bit
    /\ shadow_pages = {}
    /\ allocations = EmptyMap
    /\ allocation_queue = EmptyMap
    /\ largest_allocation = 0
    /\ shadow = [a \in (2 ^ shadow_bit) .. (2 ^ (shadow_bit + 1) - 1) |-> 0]
    /\ maps = {[start |-> StackStart, end |-> StackEnd]}
    /\ ASAN_ERRORS = None
    /\ hooked = FALSE
    /\ proc = "running"
    /\ last = Op("new", 0, 0, 0, FALSE)
    /\ steps = 0
    /\ stalked_addresses = EmptyMap

\* the fuzzer observes the process-wide buffer through a borrowed pointer
\* no stage has been performed and Launcher::launch has not been called
idle ==
    /\ performed = <<>>
    /\ launched = [clients |-> <<>>, brokers |-> <<>>,
                   signals |-> {}, returned |-> {}]  \* NotLaunched

Init ==
    /\ new
    /\ observer = Ptr
    /\ feedback = [errors |-> None]
    /\ testcase = None
    /\ idle

\* one more operation of the explored run
Tick == steps < MaxSteps /\ steps' = steps + 1

\* ------------------------------------------------------------------------
\* The error buffer
\* ------------------------------------------------------------------------

\* report_error putting the error in front
report_error_in_front(errs, error) == [errs EXCEPT !.errors = <<error>> \o @]

\* report_error pushes the error; it panics afterwards unless
\* asan_continue_after_error is set
report_error(errs, error) == [errs EXCEPT !.errors = Append(@, error)]

\* report_error returning in every configuration
ReportNeverPanics == FALSE

ReportPanics == ~options.asan_continue_after_error

\* report_error called for each element of todo in turn, until one panics
RECURSIVE report_each(_, _)
report_each(errs, todo) ==
    IF todo = <<>> THEN errs
    ELSE IF ReportPanics THEN report_error(errs, Head(todo))
    ELSE report_each(report_error(errs, Head(todo)), Tail(todo))

CanReport(n) == ASAN_ERRORS.is_some /\ Len(ASAN_ERRORS.errors) + n <= MaxErrors

\* ------------------------------------------------------------------------
\* AsanRuntime::init
\* ------------------------------------------------------------------------

\* unpoison_all_existing_memory: <<shadow_pages, shadow>> afterwards
RECURSIVE unpoison_all_existing_memory(_, _, _)
unpoison_all_existing_memory(pages, mem, regions) ==
    IF regions = {} THEN <<pages, mem>>
    ELSE LET r == CHOOSE x \in regions : TRUE
             done == map_shadow_for_region(pages, mem, r.start, r.end, TRUE)
         IN unpoison_all_existing_memory(done[1], done[2], regions \ {r})

init ==
    /\ proc = "running"
    /\ Tick
    /\ UNCHANGED <<stalked_addresses, fuzzerVars>>
    /\ ~hooked
    /\ ASAN_ERRORS' = [is_some |-> TRUE, errors |-> <<>>]
    /\ LET done == unpoison_all_existing_memory(shadow_pages, shadow, maps)
       IN /\ shadow_pages' = done[1]
          /\ shadow' = done[2]
    /\ hooked' = TRUE
    /\ last' = Op("init", 0, 0, 0, FALSE)
    /\ UNCHANGED <<setupVars, allocations, allocation_queue, largest_allocation,
                   maps, proc>>

\* ------------------------------------------------------------------------
\* Allocator::alloc
\* ------------------------------------------------------------------------

\* the bucket find_smallest_fit pops from, 0 when it returns None
RECURSIVE find_smallest_fit(_)
find_smallest_fit(current_size) ==
    IF current_size > largest_allocation THEN 0
    ELSE IF /\ current_size \in DOMAIN allocation_queue
            /\ allocation_queue[current_size] # <<>>
         THEN current_size
         ELSE find_smallest_fit(current_size * 2)

\* find_smallest_fit handing out the last record of the bucket without
\* taking it off
PopBucketKeeps(queue, bucket) == queue

\* Vec::pop on the bucket
PopBucket(queue, bucket) ==
    [queue EXCEPT ![bucket] = SubSeq(@, 1, Len(@) - 1)]

\* the bases at which a fresh anonymous mapping of this length fits
FittingBases(length) ==
    {b \in {p * page_size : p \in 1..HeapPages} :
        /\ b + length <= (HeapPages + 1) * page_size
        /\ \A m \in maps : b + length <= m.start \/ m.end <= b}

\* the bases at which the kernel places it in the explored runs: the lowest
\* and the highest one that fit
FreeBases(length) ==
    {b \in FittingBases(length) :
        \/ \A c \in FittingBases(length) : b <= c
        \/ \A c \in FittingBases(length) : b >= c}

\* an alloc that returns the base of the mapping and stores the record
\* under it
ServeAtBase(metadata, size, queue, pages, mem, mappings, reused) ==
    [panicked |-> FALSE,
     ret |-> metadata.address,
     reused |-> reused,
     largest_allocation |-> Max(largest_allocation, metadata.actual_size),
     shadow |-> unpoison(mem, map_to_shadow(metadata.address + page_size), size),
     allocations |-> Insert(allocations, metadata.address, metadata),
     allocation_queue |-> queue,
     shadow_pages |-> pages,
     maps |-> mappings]

\* the part of alloc that follows the choice of the metadata record: the
\* allocator afterwards and the pointer returned
Serve(metadata, size, queue, pages, mem, mappings, reused) ==
    [panicked |-> FALSE,
     ret |-> metadata.address + page_size,
     reused |-> reused,
     largest_allocation |-> Max(largest_allocation, metadata.actual_size),
     shadow |-> unpoison(mem, map_to_shadow(metadata.address + page_size), size),
     allocations |-> Insert(allocations, metadata.address + page_size, metadata),
     allocation_queue |-> queue,
     shadow_pages |-> pages,
     maps |-> mappings]

\* alloc leaving the allocator as it is: it panicked or returns null
Unserved(panicked) ==
    [panicked |-> panicked,
     ret |-> 0,
     reused |-> FALSE,
     largest_allocation |-> largest_allocation,
     shadow |-> shadow,
     allocations |-> allocations,
     allocation_queue |-> allocation_queue,
     shadow_pages |-> shadow_pages,
     maps |-> maps]

\* the outcomes of Allocator::alloc in the current state
alloc_outcomes(requested, alignment) ==
    LET is_malloc_zero == (requested = 0)
        size == IF requested = 0 THEN 16 ELSE requested
        rounded_up_size == round_up_to_page(size) + 2 * page_size
        bucket == find_smallest_fit(rounded_up_size)
        backtrace(old) ==
            IF options.enable_asan_allocation_backtraces THEN "Some" ELSE old
    IN IF size > MaxAllocSize
       THEN {Unserved(TRUE)}
       ELSE IF bucket # 0
            THEN LET popped == allocation_queue[bucket][Len(allocation_queue[bucket])]
                     metadata ==
                         [popped EXCEPT
                             !.is_malloc_zero = is_malloc_zero,
                             !.size = size,
                             !.allocation_site_backtrace = backtrace(@)]
                 IN {Serve(metadata, size, PopBucket(allocation_queue, bucket),
                           shadow_pages, shadow, maps, TRUE)}
            ELSE {LET mapped == map_shadow_for_region(shadow_pages, shadow,
                                    mapping, mapping + rounded_up_size, FALSE)
                      metadata ==
                          [DefaultMetadata EXCEPT
                              !.address = mapping,
                              !.size = size,
                              !.actual_size = rounded_up_size,
                              !.allocation_site_backtrace = backtrace(@)]
                  IN Serve(metadata, size, allocation_queue, mapped[1], mapped[2],
                           maps \cup {[start |-> mapping,
                                       end |-> mapping + rounded_up_size]},
                           FALSE) : mapping \in FreeBases(rounded_up_size)}
                 \cup {Unserved(FALSE)}  \* mmap fails: alloc returns null

alloc(requested, alignment) ==
    /\ proc = "running"
    /\ Tick
    /\ UNCHANGED <<stalked_addresses, fuzzerVars>>
    /\ hooked
    /\ \E served \in alloc_outcomes(requested, alignment) :
          /\ largest_allocation' = served.largest_allocation
          /\ shadow' = served.shadow
          /\ allocations' = served.allocations
          /\ allocation_queue' = served.allocation_queue
          /\ shadow_pages' = served.shadow_pages
          /\ maps' = served.maps
          /\ proc' = IF served.panicked THEN "terminated" ELSE proc
          /\ last' = Op("alloc", 0, requested, served.ret, served.reused)
    /\ UNCHANGED <<setupVars, ASAN_ERRORS, hooked>>

\* ------------------------------------------------------------------------
\* Allocator::release and the free hooks
\* ------------------------------------------------------------------------

\* release taking every unknown pointer for null
is_null_always(ptr) == TRUE

\* ptr.is_null()
is_null(ptr) == ptr = 0

\* release without the test for a second free
already_freed_never(metadata) == FALSE

\* the test that makes release report a DoubleFree
already_freed(metadata) == metadata.freed

\* release flipping the flag instead of setting it
released_toggle(metadata) ==
    [metadata EXCEPT
        !.freed = ~@,
        !.release_site_backtrace =
            IF options.enable_asan_allocation_backtraces THEN "Some" ELSE @]

\* the metadata of a released allocation
released(metadata) ==
    [metadata EXCEPT
        !.freed = TRUE,
        !.release_site_backtrace =
            IF options.enable_asan_allocation_backtraces THEN "Some" ELSE @]

\* the outcome of Allocator::release on the live map allocs, the shadow
\* memory mem and the error buffer errs
release_outcome(allocs, mem, errs, ptr) ==
    IF ptr \notin DOMAIN allocs
    THEN [allocations |-> allocs,
          shadow |-> mem,
          ASAN_ERRORS |-> IF ~is_null(ptr)
                          THEN report_error(errs, UnallocatedFree(ptr))
                          ELSE errs,
          reports |-> IF ~is_null(ptr) THEN 1 ELSE 0,
          panicked |-> ~is_null(ptr) /\ ReportPanics]
    ELSE LET metadata == allocs[ptr]
         IN IF already_freed(metadata) /\ ReportPanics
            THEN \* report_error panics: release goes no further
                 [allocations |-> allocs,
                  shadow |-> mem,
                  ASAN_ERRORS |-> report_error(errs, DoubleFree(ptr, metadata)),
                  reports |-> 1,
                  panicked |-> TRUE]
            ELSE [allocations |-> [allocs EXCEPT ![ptr] = released(metadata)],
                  shadow |-> poison(mem, map_to_shadow(ptr), metadata.size),
                  ASAN_ERRORS |-> IF already_freed(metadata)
                                  THEN report_error(errs, DoubleFree(ptr, metadata))
                                  ELSE errs,
                  reports |-> IF already_freed(metadata) THEN 1 ELSE 0,
                  panicked |-> FALSE]

release(ptr) ==
    /\ proc = "running"
    /\ Tick
    /\ UNCHANGED <<stalked_addresses, fuzzerVars>>
    /\ hooked
    /\ last' = Op("release", ptr, 0, 0, FALSE)
    /\ UNCHANGED <<setupVars, allocation_queue, largest_allocation, shadow_pages,
                   maps, hooked>>
    /\ LET done == release_outcome(allocations, shadow, ASAN_ERRORS, ptr)
       IN /\ done.reports > 0 => CanReport(done.reports)
          /\ allocations' = done.allocations
          /\ shadow' = done.shadow
          /\ ASAN_ERRORS' = done.ASAN_ERRORS
          /\ proc' = IF done.panicked THEN "terminated" ELSE proc

\* hook_free and the hook__Zda* / hook__Zdl* family
hook_free(ptr) ==
    IF ptr # 0
    THEN release(ptr)
    ELSE /\ proc = "running"
         /\ Tick
         /\ UNCHANGED <<stalked_addresses, fuzzerVars>>
         /\ hooked
         /\ last' = Op("hook_free", ptr, 0, 0, FALSE)
         /\ UNCHANGED <<setupVars, allocVars, ASAN_ERRORS, hooked, proc>>

\* ------------------------------------------------------------------------
\* Allocator::reset (AsanRuntime::reset_allocations)
\* ------------------------------------------------------------------------

\* reset leaving the freed flag as it is
reset_metadata_keeps_freed(allocation) ==
    [allocation EXCEPT
        !.size = 0,
        !.allocation_site_backtrace = "None",
        !.release_site_backtrace = "None"]

\* the metadata object as reset puts it on the queue
reset_metadata(allocation) ==
    [allocation EXCEPT
        !.size = 0,
        !.freed = FALSE,
        !.allocation_site_backtrace = "None",
        !.release_site_backtrace = "None"]

\* the loop body of reset, over the drained keys in the order given
RECURSIVE reset_drain(_, _, _)
reset_drain(order, queue, mem) ==
    IF order = <<>> THEN <<queue, mem>>
    ELSE LET address == Head(order)
             allocation == allocations[address]
             cleared == reset_metadata(allocation)
             bucket == allocation.actual_size
             pushed == IF bucket \in DOMAIN queue
                       THEN [queue EXCEPT ![bucket] = Append(@, cleared)]
                       ELSE [k \in DOMAIN queue \cup {bucket} |->
                                IF k = bucket THEN <<cleared>> ELSE queue[k]]
         IN reset_drain(Tail(order), pushed,
                        poison(mem, map_to_shadow(address), allocation.size))

reset ==
    /\ proc = "running"
    /\ Tick
    /\ UNCHANGED <<stalked_addresses, fuzzerVars>>
    /\ \E order \in Orders(DOMAIN allocations) :
          LET done == reset_drain(order, allocation_queue, shadow)
          IN /\ allocation_queue' = done[1]
             /\ shadow' = done[2]
    /\ allocations' = EmptyMap
    /\ last' = Op("reset", 0, 0, 0, FALSE)
    /\ UNCHANGED <<setupVars, largest_allocation, shadow_pages, maps,
                   ASAN_ERRORS, hooked, proc>>

\* ------------------------------------------------------------------------
\* AsanRuntime::check_for_leaks
\* ------------------------------------------------------------------------

\* check_for_leaks without the test of the freed flag
is_leaked_any(metadata) == TRUE

\* the test that makes check_for_leaks report a Leak
is_leaked(metadata) == ~metadata.freed

\* the Leak errors of the loop, for the values visited in the order given
RECURSIVE leaks_of(_)
leaks_of(order) ==
    IF order = <<>> THEN <<>>
    ELSE LET metadata == allocations[Head(order)]
         IN IF is_leaked(metadata)
            THEN <<Leak(metadata.address, metadata)>> \o leaks_of(Tail(order))
            ELSE leaks_of(Tail(order))

check_for_leaks ==
    /\ proc = "running"
    /\ Tick
    /\ UNCHANGED <<stalked_addresses, fuzzerVars>>
    /\ hooked
    /\ \E order \in Orders(DOMAIN allocations) :
          LET leaks == leaks_of(order)
          IN /\ CanReport(Len(leaks))
             /\ ASAN_ERRORS' = report_each(ASAN_ERRORS, leaks)
             /\ proc' = IF leaks # <<>> /\ ReportPanics THEN "terminated" ELSE proc
    /\ last' = Op("check_for_leaks", 0, 0, 0, FALSE)
    /\ UNCHANGED <<setupVars, allocVars, hooked>>

\* ------------------------------------------------------------------------
\* Allocator::get_usable_size
\* ------------------------------------------------------------------------

\* the size recorded for ptr in the live map allocs (the Some arm)
usable_size(allocs, ptr) == allocs[ptr].size

get_usable_size(ptr) == usable_size(allocations, ptr)

\* ------------------------------------------------------------------------
\* AsanErrorsObserver::pre_exec
\* ------------------------------------------------------------------------

pre_exec ==
    /\ proc = "running"
    /\ Tick
    /\ UNCHANGED <<stalked_addresses, fuzzerVars>>
    /\ ASAN_ERRORS' = IF ASAN_ERRORS.is_some
                      THEN [ASAN_ERRORS EXCEPT !.errors = <<>>]
                      ELSE ASAN_ERRORS
    /\ last' = Op("pre_exec", 0, 0, 0, FALSE)
    /\ UNCHANGED <<setupVars, allocVars, hooked, proc>>

\* ------------------------------------------------------------------------
\* shadow_check_func: the routine built by generate_shadow_check_function
\* ------------------------------------------------------------------------

\* mov x5, #1; add x5, xzr, x5, lsl #shadow_bit; add x5, x5, x0, lsr #3;
\* ubfx x5, x5, #0, #(shadow_bit + 2)
check_shadow_address(address) ==
    (2 ^ shadow_bit + address \div 8) % (2 ^ (shadow_bit + 2))

\* ldrb from shadow memory (a byte past the modelled shadow reads as 0)
ldrb(mem, a) == IF a \in DOMAIN mem THEN mem[a] ELSE 0

\* rbit restricted to one byte
rbit8(b) ==
    LET bit(k) == (b \div (2 ^ (7 - k))) % 2
    IN bit(0) + 2 * bit(1) + 4 * bit(2) + 8 * bit(3)
        + 16 * bit(4) + 32 * bit(5) + 64 * bit(6) + 128 * bit(7)

\* a load of the first shadow byte alone
ldrh_one_byte(mem, a) == rbit8(ldrb(mem, a))

\* ldrh w7, [x5]; rev16 w7, w7; rbit w7, w7; lsr x7, x7, #16: bit k of the
\* result stands for byte k of the 16 bytes the two shadow bytes cover
ldrh(mem, a) == rbit8(ldrb(mem, a)) + 256 * rbit8(ldrb(mem, a + 1))

\* shadow_check_func without the test of the trailing bits
shadow_check_whole_bytes(mem, ptr, n) ==
    \/ n = 0
    \/ \A i \in 0..(n \div 8 - 1) : ldrb(mem, check_shadow_address(ptr) + i) = 255

\* TRUE when the routine returns 1
shadow_check_func(mem, ptr, n) ==
    LET x5 == check_shadow_address(ptr)
        start_offset == ptr % 8
        \* the bits tested in the first shadow byte(s)
        size_to_test == IF start_offset = 0 THEN 0
                        ELSE IF n < 8 THEN n ELSE 8 - start_offset
        head_ok ==
            \/ start_offset = 0
            \/ (ldrh(mem, x5) \div (2 ^ start_offset)) % (2 ^ size_to_test)
                    = 2 ^ size_to_test - 1
        first == IF start_offset = 0 THEN x5 ELSE x5 + 1
        remaining == n - size_to_test
        \* check_8_shadow_bytes and less_than_8_shadow_bytes_remaining
        num_shadow_bytes == remaining \div 8
        body_ok == \A i \in 0..(num_shadow_bytes - 1) : ldrb(mem, first + i) = 255
        \* check_trailing_bits
        trailing == remaining - 8 * num_shadow_bytes
        tail_ok ==
            \/ trailing = 0
            \/ ldrh(mem, first + num_shadow_bytes) % (2 ^ trailing) = 2 ^ trailing - 1
    IN n = 0 \/ (head_ok /\ body_ok /\ tail_ok)

\* the shadow bytes the routine loads for the n bytes from ptr on are backed
shadow_check_backed(ptr, n) ==
    \/ pre_allocated_shadow
    \/ \A a \in check_shadow_address(ptr)..
                 (check_shadow_address(ptr) + ((ptr % 8) + n) \div 8 + 1) :
          a \in shadow_pages

\* (self.shadow_check_func.unwrap())(ptr, n)
call_shadow_check_func(ptr, n) ==
    /\ proc = "running"
    /\ Tick
    /\ hooked
    /\ shadow_check_backed(ptr, n)
    /\ last' = [op |-> "shadow_check_func", ptr |-> ptr, n |-> n,
                ret |-> IF shadow_check_func(shadow, ptr, n) THEN 1 ELSE 0]
    /\ UNCHANGED <<setupVars, allocVars, ASAN_ERRORS, hooked, proc,
                   stalked_addresses, fuzzerVars>>

\* the shadow address of a target address, as the allocator computes it to
\* poison and unpoison and as the generated code computes it to check
shadow_address(address) ==
    /\ proc = "running"
    /\ hooked
    /\ last' = [op |-> "shadow_address", address |-> address,
                allocator |-> map_to_shadow(address),
                generated |-> check_shadow_address(address)]
    /\ UNCHANGED <<setupVars, allocVars, ASAN_ERRORS, hooked, proc, steps,
                   stalked_addresses, fuzzerVars>>

\* ------------------------------------------------------------------------
\* The shadow-check blobs emitted before instrumented accesses
\* ------------------------------------------------------------------------

\* ldrh w1, [x1]; and x0, x0, #7; rev16; rbit; lsr x1, x1, #16;
\* lsr x1, x1, x0: bit k of the result stands for the byte address + k
shifted_shadow_bits(mem, address) ==
    ldrh(mem, check_shadow_address(address)) \div (2 ^ (address % 8))

\* bit k of x
bit_of(x, k) == (x \div (2 ^ k)) % 2

\* ands x1, x1, x2 on the 16 bits loaded
ands(x, y) ==
    LET both(k) == bit_of(x, k) * bit_of(y, k) * (2 ^ k)
    IN both(0) + both(1) + both(2) + both(3) + both(4) + both(5) + both(6)
        + both(7) + both(8) + both(9) + both(10) + both(11) + both(12)
        + both(13) + both(14) + both(15)

\* generate_shadow_check_blob(bit): TRUE when tbnz x1, #bit branches to
\* done, past the slot of the branch to report
shadow_check_blob(mem, bit, address) ==
    bit_of(shifted_shadow_bits(mem, address), bit) = 1

\* generate_shadow_check_exact_blob(val): TRUE when b.ne branches to done
shadow_check_exact_blob(mem, val, address) ==
    ands(shifted_shadow_bits(mem, address), val) # 0

\* the argument generate_instrumentation_blobs passes for the blob of the
\* accesses of 1, 2, 4, 8 and 16 bytes
blob_check_mem_bit(size) ==
    CASE size = 1 -> 0
      [] size = 2 -> 1
      [] size = 4 -> 2
      [] size = 8 -> 3
      [] size = 16 -> 4

\* the argument it passes for the blob of the other access sizes
blob_check_mem_val(size) == size

\* the two shadow bytes the blobs load for the address are backed
blob_shadow_backed(address) ==
    \/ pre_allocated_shadow
    \/ /\ check_shadow_address(address) \in shadow_pages
       /\ check_shadow_address(address) + 1 \in shadow_pages

\* an instrumented access of 1, 2, 4, 8 or 16 bytes runs its blob
blob_check_mem(size, address) ==
    /\ proc = "running"
    /\ Tick
    /\ hooked
    /\ blob_shadow_backed(address)
    /\ last' = [op |-> "blob_check_mem", size |-> size, address |-> address,
                reported |-> ~shadow_check_blob(shadow, blob_check_mem_bit(size),
                                                address)]
    /\ UNCHANGED <<setupVars, allocVars, ASAN_ERRORS, hooked, proc,
                   stalked_addresses, fuzzerVars>>

\* an instrumented access of 3, 6, 12, 24, 32, 48 or 64 bytes runs its blob
blob_check_mem_exact(size, address) ==
    /\ proc = "running"
    /\ Tick
    /\ hooked
    /\ blob_shadow_backed(address)
    /\ last' = [op |-> "blob_check_mem_exact", size |-> size, address |-> address,
                reported |-> ~shadow_check_exact_blob(shadow,
                                                      blob_check_mem_val(size),
                                                      address)]
    /\ UNCHANGED <<setupVars, allocVars, ASAN_ERRORS, hooked, proc,
                   stalked_addresses, fuzzerVars>>

\* ------------------------------------------------------------------------
\* The hooks installed by hook_functions
\* ------------------------------------------------------------------------

\* the history record of a call of a replacement_* function: its
\* arguments, whether the return address is in an instrumented module,
\* the <<kind, ptr, n>> ranges it validated, the calls of libc functions
\* it made and what it returned (<<>> when it did not return)
Call(op, instrumented, args, checked, real, ret) ==
    [op |-> op, instrumented |-> instrumented, args |-> args,
     checked |-> checked, real |-> real, ret |-> ret]

\* a call of the underlying libc function and the value it returns
Real(name, args) == [name |-> name, args |-> args]

Result(name, args) == [result_of |-> name, args |-> args]

BadFuncArgRead(name, address, size) ==
    [kind |-> "BadFuncArgRead", name |-> name, ptr |-> address, size |-> size]

BadFuncArgWrite(name, address, size) ==
    [kind |-> "BadFuncArgWrite", name |-> name, ptr |-> address, size |-> size]

\* the errors of the ranges that fail shadow_check_func, in the order of
\* the checks; a check is <<kind, ptr, n>>
RECURSIVE bad_args(_, _)
bad_args(name, checks) ==
    IF checks = <<>> THEN <<>>
    ELSE LET check == Head(checks)
             error == IF check[1] = "Write"
                      THEN BadFuncArgWrite(name, check[2], check[3])
                      ELSE BadFuncArgRead(name, check[2], check[3])
         IN IF ~shadow_check_func(shadow, check[2], check[3])
            THEN <<error>> \o bad_args(name, Tail(checks))
            ELSE bad_args(name, Tail(checks))

\* the body shared by the argument-validated hooks: the checks, each
\* followed by report_error when it fails, and then the libc routine
validated_hook(name, checks, args) ==
    /\ proc = "running"
    /\ Tick
    /\ hooked
    /\ LET bad == bad_args(name, checks)
           panics == bad # <<>> /\ ReportPanics
       IN /\ bad # <<>> => CanReport(IF ReportPanics THEN 1 ELSE Len(bad))
          /\ ASAN_ERRORS' = report_each(ASAN_ERRORS, bad)
          /\ proc' = IF panics THEN "terminated" ELSE proc
          /\ last' = IF panics
                     THEN Call(name, TRUE, args, checks, <<>>, <<>>)
                     ELSE Call(name, TRUE, args, checks, <<Real(name, args)>>,
                               <<Result(name, args)>>)
    /\ UNCHANGED <<setupVars, allocVars, hooked, stalked_addresses, fuzzerVars>>

hook_memcpy(dest, src, n) ==
    validated_hook("memcpy", <<<<"Write", dest, n>>, <<"Read", src, n>>>>,
                   <<dest, src, n>>)

hook_memset(dest, c, n) ==
    validated_hook("memset", <<<<"Write", dest, n>>>>, <<dest, c, n>>)

\* strlen_src is what strlen(src) returns
hook_strcpy(dest, src, strlen_src) ==
    validated_hook("strcpy",
                   <<<<"Write", dest, strlen_src>>, <<"Read", src, strlen_src>>>>,
                   <<dest, src>>)

hook_write(fd, buf, count) ==
    validated_hook("write", <<<<"Write", buf, count>>>>, <<fd, buf, count>>)

hook_read(fd, buf, count) ==
    validated_hook("read", <<<<"Read", buf, count>>>>, <<fd, buf, count>>)

hook_fgets(str, size, stream) ==
    validated_hook("fgets", <<<<"Read", str, size>>>>, <<str, size, stream>>)

hook_memcmp(s1, s2, n) ==
    validated_hook("memcmp", <<<<"Read", s1, n>>, <<"Read", s2, n>>>>, <<s1, s2, n>>)

\* the else branch of replacement_*: the return address is in no
\* instrumented module and the real function is called
real_call(name, args) ==
    /\ proc = "running"
    /\ Tick
    /\ hooked
    /\ last' = Call(name, FALSE, args, <<>>, <<Real(name, args)>>,
                    <<Result(name, args)>>)
    /\ UNCHANGED <<setupVars, allocVars, ASAN_ERRORS, hooked, proc,
                   stalked_addresses, fuzzerVars>>

replacement_memcpy(instrumented, dest, src, n) ==
    IF instrumented THEN hook_memcpy(dest, src, n)
    ELSE real_call("memcpy", <<dest, src, n>>)

replacement_memset(instrumented, dest, c, n) ==
    IF instrumented THEN hook_memset(dest, c, n)
    ELSE real_call("memset", <<dest, c, n>>)

replacement_strcpy(instrumented, dest, src, strlen_src) ==
    IF instrumented THEN hook_strcpy(dest, src, strlen_src)
    ELSE real_call("strcpy", <<dest, src>>)

replacement_malloc(instrumented, size) ==
    IF instrumented THEN alloc(size, 8)
    ELSE real_call("malloc", <<size>>)

replacement_free(instrumented, ptr) ==
    IF instrumented THEN hook_free(ptr)
    ELSE real_call("free", <<ptr>>)

\* a hook that passes size and alignment on to Allocator::alloc; args are
\* the arguments of the call in the order the caller passed them, served is
\* what alloc returned, ret what the hook returns
alloc_hook(name, args, size, alignment, returns_pointer) ==
    /\ proc = "running"
    /\ Tick
    /\ hooked
    /\ \E served \in alloc_outcomes(size, alignment) :
          /\ largest_allocation' = served.largest_allocation
          /\ shadow' = served.shadow
          /\ allocations' = served.allocations
          /\ allocation_queue' = served.allocation_queue
          /\ shadow_pages' = served.shadow_pages
          /\ maps' = served.maps
          /\ proc' = IF served.panicked THEN "terminated" ELSE proc
          /\ last' = [op |-> name, instrumented |-> TRUE, args |-> args,
                      checked |-> <<>>, real |-> <<>>,
                      served |-> served.ret,
                      ret |-> IF served.panicked THEN <<>>
                              ELSE IF returns_pointer THEN <<served.ret>>
                              ELSE <<0>>]
    /\ UNCHANGED <<setupVars, ASAN_ERRORS, hooked, stalked_addresses, fuzzerVars>>

\* hook_func!(None, memalign, (size: usize, alignment: usize), *mut c_void):
\* the first argument of the call is bound to size, the second to alignment
hook_memalign(size, alignment) ==
    alloc_hook("memalign", <<size, alignment>>, size, alignment, TRUE)

\* *pptr = alloc(size, alignment); 0
hook_posix_memalign(pptr, size, alignment) ==
    alloc_hook("posix_memalign", <<pptr, size, alignment>>, size, alignment, FALSE)

\* hook__ZnamSt11align_val_t, hook__ZnwmSt11align_val_t and their nothrow
\* forms: operator new(size, align_val_t)
hook__ZnwmSt11align_val_t(size, alignment) ==
    alloc_hook("_ZnwmSt11align_val_t", <<size, alignment>>, size, alignment, TRUE)

replacement_memalign(instrumented, size, alignment) ==
    IF instrumented THEN hook_memalign(size, alignment)
    ELSE real_call("memalign", <<size, alignment>>)

replacement_posix_memalign(instrumented, pptr, size, alignment) ==
    IF instrumented THEN hook_posix_memalign(pptr, size, alignment)
    ELSE real_call("posix_memalign", <<pptr, size, alignment>>)

replacement__ZnwmSt11align_val_t(instrumented, size, alignment) ==
    IF instrumented THEN hook__ZnwmSt11align_val_t(size, alignment)
    ELSE real_call("_ZnwmSt11align_val_t", <<size, alignment>>)

\* the length hook_realloc passes to memmove
copied_bytes(allocs, ptr, size) == usable_size(allocs, ptr)

\* hook_realloc: alloc, then memmove of the old block unless ptr is null,
\* then release.  get_usable_size panics for a pointer that is no key of
\* the live map, and memmove to a null destination faults.
hook_realloc(ptr, size) ==
    /\ proc = "running"
    /\ Tick
    /\ hooked
    /\ \E served \in alloc_outcomes(size, 8) :
          LET died == \/ served.panicked
                      \/ ptr # 0 /\ ptr \notin DOMAIN served.allocations
                      \/ ptr # 0 /\ served.ret = 0
              copied == IF ptr # 0 /\ ~died
                        THEN copied_bytes(served.allocations, ptr, size)
                        ELSE 0
              done == release_outcome(served.allocations, served.shadow,
                                      ASAN_ERRORS, ptr)
          IN /\ largest_allocation' = served.largest_allocation
             /\ allocation_queue' = served.allocation_queue
             /\ shadow_pages' = served.shadow_pages
             /\ maps' = served.maps
             /\ IF died
                THEN /\ allocations' = served.allocations
                     /\ shadow' = served.shadow
                     /\ proc' = "terminated"
                     /\ last' = Call("realloc", TRUE, <<ptr, size>>, <<>>, <<>>, <<>>)
                     /\ UNCHANGED ASAN_ERRORS
                ELSE /\ done.reports > 0 => CanReport(done.reports)
                     /\ allocations' = done.allocations
                     /\ shadow' = done.shadow
                     /\ ASAN_ERRORS' = done.ASAN_ERRORS
                     /\ proc' = IF done.panicked THEN "terminated" ELSE proc
                     /\ last' = Call("realloc", TRUE, <<ptr, size>>, <<>>,
                                     IF ptr # 0
                                     THEN <<Real("memmove", <<served.ret, ptr, copied>>)>>
                                     ELSE <<>>,
                                     IF done.panicked THEN <<>> ELSE <<served.ret>>)
    /\ UNCHANGED <<setupVars, hooked, stalked_addresses, fuzzerVars>>

replacement_realloc(instrumented, ptr, size) ==
    IF instrumented THEN hook_realloc(ptr, size)
    ELSE real_call("realloc", <<ptr, size>>)

\* hook_malloc_usable_size: get_usable_size panics for a pointer that is no
\* key of the live map
hook_malloc_usable_size(ptr) ==
    /\ proc = "running"
    /\ Tick
    /\ hooked
    /\ IF ptr \in DOMAIN allocations
       THEN /\ last' = Call("malloc_usable_size", TRUE, <<ptr>>, <<>>, <<>>,
                            <<get_usable_size(ptr)>>)
            /\ UNCHANGED proc
       ELSE /\ last' = Call("malloc_usable_size", TRUE, <<ptr>>, <<>>, <<>>, <<>>)
            /\ proc' = "terminated"
    /\ UNCHANGED <<setupVars, allocVars, ASAN_ERRORS, hooked, stalked_addresses,
                   fuzzerVars>>

replacement_malloc_usable_size(instrumented, ptr) ==
    IF instrumented THEN hook_malloc_usable_size(ptr)
    ELSE real_call("malloc_usable_size", <<ptr>>)

\* the real mmap for an anonymous mapping without address hint: the base
\* chosen by the kernel, or MAP_FAILED (-1)
mmap(length) == FreeBases(length) \cup {-1}

hook_mmap(length) ==
    /\ proc = "running"
    /\ Tick
    /\ hooked
    /\ \E res \in mmap(length) :
          /\ IF res # -1
             THEN LET mapped == map_shadow_for_region(shadow_pages, shadow,
                                    res, res + length, TRUE)
                  IN /\ maps' = maps \cup {[start |-> res, end |-> res + length]}
                     /\ shadow_pages' = mapped[1]
                     /\ shadow' = mapped[2]
             ELSE UNCHANGED <<maps, shadow_pages, shadow>>
          /\ last' = Call("mmap", TRUE, <<length>>, <<>>, <<Real("mmap", <<length>>)>>,
                          <<res>>)
    /\ UNCHANGED <<setupVars, allocations, allocation_queue, largest_allocation,
                   ASAN_ERRORS, hooked, proc, stalked_addresses, fuzzerVars>>

\* the real mmap called from a module that is not instrumented
real_mmap(length) ==
    /\ proc = "running"
    /\ Tick
    /\ hooked
    /\ \E res \in mmap(length) :
          /\ maps' = IF res # -1
                     THEN maps \cup {[start |-> res, end |-> res + length]}
                     ELSE maps
          /\ last' = Call("mmap", FALSE, <<length>>, <<>>, <<Real("mmap", <<length>>)>>,
                          <<res>>)
    /\ UNCHANGED <<setupVars, allocations, allocation_queue, largest_allocation,
                   shadow, shadow_pages, ASAN_ERRORS, hooked, proc,
                   stalked_addresses, fuzzerVars>>

replacement_mmap(instrumented, length) ==
    IF instrumented THEN hook_mmap(length) ELSE real_mmap(length)

\* the real munmap of a whole mapping: 0, or -1 (EINVAL) for a length of 0
munmap(addr, length) == IF length = 0 THEN -1 ELSE 0

\* the mappings of the process after a successful munmap of a whole mapping
unmapped(addr, length) == {m \in maps : ~(m.start = addr /\ m.end = addr + length)}

\* every shadow byte of [addr, addr + length) is backed by memory
shadow_backed(addr, length) ==
    \/ pre_allocated_shadow
    \/ \A a \in map_to_shadow(addr)..(map_to_shadow(addr) + (length + 7) \div 8 - 1) :
          a \in shadow_pages

\* hook_munmap; poisoning shadow that is not backed faults
hook_munmap(addr, length) ==
    /\ proc = "running"
    /\ Tick
    /\ hooked
    /\ LET res == munmap(addr, length)
       IN /\ IF res # -1
             THEN /\ maps' = unmapped(addr, length)
                  /\ IF shadow_backed(addr, length)
                     THEN /\ shadow' = poison(shadow, map_to_shadow(addr), length)
                          /\ UNCHANGED proc
                     ELSE /\ proc' = "terminated"
                          /\ UNCHANGED shadow
             ELSE UNCHANGED <<maps, shadow, proc>>
          /\ last' = Call("munmap", TRUE, <<addr, length>>, <<>>,
                          <<Real("munmap", <<addr, length>>)>>,
                          IF res # -1 /\ ~shadow_backed(addr, length)
                          THEN <<>> ELSE <<res>>)
    /\ UNCHANGED <<setupVars, allocations, allocation_queue, largest_allocation,
                   shadow_pages, ASAN_ERRORS, hooked, stalked_addresses, fuzzerVars>>

real_munmap_poisoning(addr, length) ==
    /\ proc = "running"
    /\ Tick
    /\ hooked
    /\ LET res == munmap(addr, length)
       IN /\ maps' = IF res # -1 THEN unmapped(addr, length) ELSE maps
          /\ shadow' = IF res # -1 /\ shadow_backed(addr, length)
                       THEN poison(shadow, map_to_shadow(addr), length)
                       ELSE shadow
          /\ last' = Call("munmap", FALSE, <<addr, length>>, <<>>,
                          <<Real("munmap", <<addr, length>>)>>, <<res>>)
    /\ UNCHANGED <<setupVars, allocations, allocation_queue, largest_allocation,
                   shadow_pages, ASAN_ERRORS, hooked, proc,
                   stalked_addresses, fuzzerVars>>

real_munmap(addr, length) ==
    /\ proc = "running"
    /\ Tick
    /\ hooked
    /\ LET res == munmap(addr, length)
       IN /\ maps' = IF res # -1 THEN unmapped(addr, length) ELSE maps
          /\ last' = Call("munmap", FALSE, <<addr, length>>, <<>>,
                          <<Real("munmap", <<addr, length>>)>>, <<res>>)
    /\ UNCHANGED <<setupVars, allocations, allocation_queue, largest_allocation,
                   shadow, shadow_pages, ASAN_ERRORS, hooked, proc,
                   stalked_addresses, fuzzerVars>>

replacement_munmap(instrumented, addr, length) ==
    IF instrumented THEN hook_munmap(addr, length) ELSE real_munmap(addr, length)

\* ------------------------------------------------------------------------
\* Allocator::find_metadata and AsanRuntime::handle_trap
\* ------------------------------------------------------------------------

\* i64::max_value(), scaled
i64_max_value == 2147483647

abs(x) == IF x < 0 THEN -x ELSE x

\* the keys of the live map in the order of metadatas.sort_by(address)
sorted_by_address(allocs) ==
    CHOOSE order \in Orders(DOMAIN allocs) :
        \A i, j \in DOMAIN order :
            i < j => allocs[order[i]].address < allocs[order[j]].address

\* the loop of find_metadata over the sorted records
RECURSIVE find_metadata_loop(_, _, _, _, _, _)
find_metadata_loop(allocs, metadatas, ptr, hint_base, offset_to_closest, closest) ==
    IF metadatas = <<>> THEN closest
    ELSE LET metadata == allocs[Head(metadatas)]
             distance == abs(ptr - metadata.address)
             new_offset == IF hint_base = metadata.address
                           THEN distance
                           ELSE IF offset_to_closest < distance
                                THEN offset_to_closest ELSE distance
         IN IF new_offset < offset_to_closest
            THEN find_metadata_loop(allocs, Tail(metadatas), ptr, hint_base,
                                    new_offset, <<metadata>>)
            ELSE find_metadata_loop(allocs, Tail(metadatas), ptr, hint_base,
                                    offset_to_closest, closest)

\* Option<&mut AllocationMetadata>: <<>> for None, <<metadata>> for Some
find_metadata(allocs, ptr, hint_base) ==
    find_metadata_loop(allocs, sorted_by_address(allocs), ptr, hint_base,
                       i64_max_value, <<>>)

\* a call of find_metadata on the allocator
call_find_metadata(ptr, hint_base) ==
    /\ proc = "running"
    /\ Tick
    /\ hooked
    /\ last' = [op |-> "find_metadata", ptr |-> ptr, hint_base |-> hint_base,
                ret |-> find_metadata(allocations, ptr, hint_base)]
    /\ UNCHANGED <<setupVars, allocVars, ASAN_ERRORS, hooked, proc,
                   stalked_addresses, fuzzerVars>>

\* getrlimit64(RLIMIT_STACK).rlim_cur, scaled: one page more than the
\* stack mapping that exists when the runtime is initialised
stack_rlimit == 3 * page_size

\* AsanRuntime::current_stack: the mapping of the stack, extended downwards
\* to the stack limit
current_stack == <<StackEnd - stack_rlimit, StackEnd>>

\* the mappings after current_stack has mapped the part of the stack
\* below the existing stack mapping
stack_mapped(mappings) ==
    IF StackStart # current_stack[1]
    THEN mappings \cup {[start |-> current_stack[1], end |-> StackStart]}
    ELSE mappings

\* the check emitted before an instrumented access of one byte fails: the
\* shadow byte of the address is backed and the bit of the address is clear
shadow_check_fails(address) ==
    /\ pre_allocated_shadow \/ map_to_shadow(address) \in shadow_pages
    /\ ~Addressable(shadow, address)

\* insn.mnemonic().starts_with('l'); a mnemonic is its sequence of letters
starts_with_l(mnemonic) == mnemonic # <<>> /\ Head(mnemonic) = "l"

\* the classification that takes every access for a write
is_read_never(mnemonic) == FALSE

is_read(mnemonic) == starts_with_l(mnemonic)

\* the errors built by handle_trap
StackOob(mnemonic, fault_address) ==
    [kind |-> IF is_read(mnemonic) THEN "StackOobRead" ELSE "StackOobWrite",
     fault |-> fault_address]

Unknown(fault_address) == [kind |-> "Unknown", fault |-> fault_address]

ReadWriteError(mnemonic, fault_address, metadata) ==
    [kind |-> IF is_read(mnemonic)
              THEN (IF metadata.freed THEN "ReadAfterFree" ELSE "OobRead")
              ELSE (IF metadata.freed THEN "WriteAfterFree" ELSE "OobWrite"),
     fault |-> fault_address,
     metadata |-> metadata]

\* the error handle_trap builds for the instruction with this mnemonic,
\* whose base register holds base and whose index register, if any,
\* holds index
trap_error(mnemonic, base, displacement, index) ==
    LET fault_address == base + displacement + index
        found == find_metadata(allocations, fault_address, base)
    IN IF fault_address >= current_stack[1] /\ fault_address < current_stack[2]
       THEN StackOob(mnemonic, fault_address)
       ELSE IF found # <<>>
            THEN ReadWriteError(mnemonic, fault_address, found[1])
            ELSE Unknown(fault_address)

\* handle_trap: the instruction at the (translated) pc is disassembled,
\* the fault address computed from its operands and the register
\* snapshot, and the error reported; the target resumes after the
\* faulting instruction unless report_error panics
handle_trap(mnemonic, base, displacement, index) ==
    /\ proc = "running"
    /\ Tick
    /\ hooked
    /\ shadow_check_fails(base + displacement + index)
    /\ CanReport(1)
    /\ maps' = stack_mapped(maps)
    /\ ASAN_ERRORS' = report_error(ASAN_ERRORS,
                                   trap_error(mnemonic, base, displacement, index))
    /\ proc' = IF ReportPanics THEN "terminated" ELSE proc
    /\ last' = [op |-> "handle_trap", mnemonic |-> mnemonic,
                fault |-> base + displacement + index, base |-> base,
                resumed |-> ~ReportPanics]
    /\ UNCHANGED <<setupVars, allocations, allocation_queue, largest_allocation,
                   shadow, shadow_pages, hooked, stalked_addresses, fuzzerVars>>

\* capstone's Arm64Reg values: ARM64_REG_INVALID (0, no register), the X, W
\* and S registers, SP, WSP, XZR and WZR
NoReg == [class |-> "INVALID", n |-> 0]

X(n) == [class |-> "X", n |-> n]

W(n) == [class |-> "W", n |-> n]

SP == [class |-> "SP", n |-> 0]

XZR == [class |-> "XZR", n |-> 0]

\* the value the register holds when the instrumented instruction is
\* reached; cpu is [x, sp, pc]
register_value(cpu, reg) ==
    CASE reg.class \in {"X", "W"} -> cpu.x[reg.n]
      [] reg.class = "SP" -> cpu.sp
      [] OTHER -> 0

\* the address the instruction accesses: base + displacement + index
effective_address(cpu, base_reg, displacement, index_reg) ==
    register_value(cpu, base_reg) + displacement + register_value(cpu, index_reg)

\* the slot of self.regs handle_trap reads for a register
regs_slot(reg) ==
    CASE reg.class \in {"X", "W", "S"} -> reg.n
      [] reg.class \in {"SP", "WSP", "XZR", "WZR"} -> 31
      [] OTHER -> reg.n

\* self.regs as the report blob fills it: x29 is stored after
\* stp x29, x30, [sp, #-0x10]!; mov x29, sp, and slot 31 holds the address
\* of the instrumented instruction
saved_regs(cpu) ==
    [slot \in 0..31 |->
        IF slot = 31 THEN cpu.pc
        ELSE IF slot = 29 THEN cpu.sp - 16
        ELSE cpu.x[slot]]

\* the report blob and handle_trap, entered when the check of the access
\* of the instrumented instruction failed
report(cpu, mnemonic, base_reg, displacement, index_reg) ==
    LET regs == saved_regs(cpu)
        base == regs[regs_slot(base_reg)]
        index == IF index_reg = NoReg THEN 0 ELSE regs[regs_slot(index_reg)]
        effective == effective_address(cpu, base_reg, displacement, index_reg)
    IN /\ proc = "running"
       /\ Tick
       /\ hooked
       /\ effective \in 0..(AddressSpace - 1)
       /\ shadow_check_fails(effective)
       /\ CanReport(1)
       /\ maps' = stack_mapped(maps)
       /\ ASAN_ERRORS' = report_error(ASAN_ERRORS,
                                      trap_error(mnemonic, base, displacement, index))
       /\ proc' = IF ReportPanics THEN "terminated" ELSE proc
       /\ last' = [op |-> "report", mnemonic |-> mnemonic,
                   base_reg |-> base_reg, index_reg |-> index_reg,
                   fault |-> base + displacement + index, base |-> base,
                   effective |-> effective, resumed |-> ~ReportPanics]
       /\ UNCHANGED <<setupVars, allocations, allocation_queue, largest_allocation,
                      shadow, shadow_pages, hooked, stalked_addresses, fuzzerVars>>

\* ------------------------------------------------------------------------
\* AsanErrorsObserver and AsanErrorsFeedback
\* ------------------------------------------------------------------------

\* the values AsanErrorsObserver::new_owned is called with
OwnedInputs == {None, Some(<<>>), Some(<<UnallocatedFree(StackStart)>>)}

\* AsanErrorsObserver::errors: the Option<&AsanErrors> the observer yields
observer_errors(obs, static) == IF obs.tag = "Ptr" THEN static ELSE obs.owned

\* is_interesting taking every list for a non-empty one
is_empty_never(errs) == FALSE

\* errors.errors.is_empty()
is_empty(errs) == errs.errors = <<>>

is_interesting ==
    /\ proc = "running"
    /\ Tick
    /\ LET seen == observer_errors(observer, ASAN_ERRORS)
           interesting == seen.is_some /\ ~is_empty(seen)
       IN /\ feedback' = IF interesting
                          THEN [feedback EXCEPT !.errors = Some(seen.errors)]
                          ELSE feedback
          /\ last' = Op("is_interesting", 0, 0, interesting, FALSE)
    /\ UNCHANGED <<setupVars, allocVars, ASAN_ERRORS, hooked, proc,
                   stalked_addresses, observer, testcase, libaflVars>>

\* append_metadata, called with the test case just built from the input
append_metadata ==
    /\ proc = "running"
    /\ Tick
    /\ testcase' = IF feedback.errors.is_some THEN feedback.errors ELSE None
    /\ last' = Op("append_metadata", 0, 0, 0, FALSE)
    /\ UNCHANGED <<setupVars, allocVars, ASAN_ERRORS, hooked, proc,
                   stalked_addresses, observer, feedback, libaflVars>>

discard_metadata ==
    /\ proc = "running"
    /\ Tick
    /\ feedback' = [feedback EXCEPT !.errors = None]
    /\ last' = Op("discard_metadata", 0, 0, 0, FALSE)
    /\ UNCHANGED <<setupVars, allocVars, ASAN_ERRORS, hooked, proc,
                   stalked_addresses, observer, testcase, libaflVars>>

\* ------------------------------------------------------------------------
\* Stages (libafl/src/stages/mod.rs)
\* ------------------------------------------------------------------------

\* Result<(), Error>
Ok == [is_ok |-> TRUE, err |-> "none"]

Err(e) == [is_ok |-> FALSE, err |-> e]

\* a stage whose perform returns result
Stage(id, result) == [id |-> id, result |-> result]

\* Stage::perform: the call is made with the given arguments and returns
\* what the stage returns
perform(stage, calls, args) ==
    [calls |-> Append(calls, [stage |-> stage.id, args |-> args]),
     ret |-> stage.result]

\* a `?` that never returns early
is_err_never(ret) == FALSE

\* the test of the `?` operator
is_err(ret) == ~ret.is_ok

\* StagesTuple::perform_all for () and for (Head, Tail); the tuple list
\* (a, (b, ())) is <<a, <<b, <<>>>>>>
RECURSIVE perform_all(_, _, _)
perform_all(self, calls, args) ==
    IF self = <<>>
    THEN [calls |-> calls, ret |-> Ok]
    ELSE LET head == perform(self[1], calls, args)
         IN IF is_err(head.ret)
            THEN head
            ELSE perform_all(self[2], head.calls, args)

\* a call of perform_all on the tuple of stages of a fuzzer
call_perform_all(stages, corpus_idx) ==
    /\ proc = "running"
    /\ Tick
    /\ LET args == [state |-> "state", executor |-> "executor",
                    manager |-> "manager", scheduler |-> "scheduler",
                    corpus_idx |-> corpus_idx]
           done == perform_all(stages, <<>>, args)
       IN /\ performed' = done.calls
          /\ last' = [op |-> "perform_all", stages |-> stages, args |-> args,
                      ret |-> done.ret]
    /\ UNCHANGED <<setupVars, allocVars, ASAN_ERRORS, hooked, proc,
                   stalked_addresses, observer, feedback, testcase, launched>>

\* ------------------------------------------------------------------------
\* Launcher (libafl/src/bolts/launcher.rs)
\* ------------------------------------------------------------------------

\* self.cores.iter().any(|&x| x == id)
any_core(cores, id) == \E i \in DOMAIN cores : cores[i] = id

\* a fuzzer client started in process `process` and bound to core `core`
Client(process, core) == [process |-> process, core |-> core]

\* the handles vector of a process that has spawned these clients
handles_of(clients) == [i \in DOMAIN clients |-> clients[i].process]

\* "broker exited. kill all clients.": the loop over the handles at the end
\* of launch, run by process `by`
kill_all(by, handles) == {[by |-> by, to |-> handles[i]] : i \in DOMAIN handles}

\* launch has returned ret in the process
Returned(process, ret) == [process |-> process, ret |-> ret]

\* the loop of the unix launch from index id on: one fork for every index
\* of core_ids that is listed in cores; the child starts a client bound
\* to core_ids[id]. When run_client returns an error the child returns it
\* from launch; when run_client returns Ok the child leaves the loop and
\* goes on to start a broker of its own, which ends with child_broker,
\* and after a broker that ended with Ok it runs the kill loop over the
\* handles it inherited at the fork
RECURSIVE spawn_unix(_, _, _, _, _, _)
spawn_unix(core_ids, cores, run_client, child_broker, id, spawned) ==
    IF id >= Len(core_ids) THEN spawned
    ELSE IF any_core(cores, id)
         THEN LET child == Len(spawned.clients) + 1
                  handles == handles_of(spawned.clients)
                  forked == [clients |-> Append(spawned.clients,
                                                Client(child, core_ids[id + 1])),
                             brokers |-> IF run_client = "Ok"
                                         THEN Append(spawned.brokers, child)
                                         ELSE spawned.brokers,
                             signals |-> IF run_client = "Ok" /\ child_broker = "Ok"
                                         THEN spawned.signals \cup kill_all(child, handles)
                                         ELSE spawned.signals,
                             returned |-> CASE run_client = "never" -> spawned.returned
                                            [] run_client = "Err" ->
                                                 spawned.returned \cup {Returned(child, "Err")}
                                            [] OTHER ->
                                                 spawned.returned \cup {Returned(child, child_broker)}]
              IN spawn_unix(core_ids, cores, run_client, child_broker, id + 1, forked)
         ELSE spawn_unix(core_ids, cores, run_client, child_broker, id + 1, spawned)

\* the inner loop of the Windows launch: one re-spawn of the program, with
\* AFL_LAUNCHER_CLIENT set to id, for every index listed in cores; the
\* spawned program, finding the variable, becomes a client bound to CoreId id
RECURSIVE spawn_windows_inner(_, _, _, _)
spawn_windows_inner(num_cores, cores, id, spawned) ==
    IF id >= num_cores THEN spawned
    ELSE IF any_core(cores, id)
         THEN spawn_windows_inner(num_cores, cores, id + 1,
                  [spawned EXCEPT !.clients =
                      Append(@, Client(Len(spawned.clients) + 1, id))])
         ELSE spawn_windows_inner(num_cores, cores, id + 1, spawned)

\* the outer loop of the Windows launch
RECURSIVE spawn_windows(_, _, _, _)
spawn_windows(num_cores, cores, id, spawned) ==
    IF id >= num_cores THEN spawned
    ELSE IF any_core(cores, id)
         THEN spawn_windows(num_cores, cores, id + 1,
                            spawn_windows_inner(num_cores, cores, 0, spawned))
         ELSE spawn_windows(num_cores, cores, id + 1, spawned)

\* the process that called launch (without AFL_LAUNCHER_CLIENT on Windows)
Launching == 0

NotLaunched == [clients |-> <<>>, brokers |-> <<>>, signals |-> {}, returned |-> {}]

\* Launcher::launch in the launching process: the clients are spawned and
\* then the broker is run; the broker's RestartingMgr ends with `broker`,
\* an error leaves launch through `?`, and after Ok the kill loop runs
\* over the handles of the spawned clients
launch(platform, core_ids, cores, run_client, broker, child_broker) ==
    /\ proc = "running"
    /\ Tick
    /\ LET spawned == IF platform = "unix"
                      THEN spawn_unix(core_ids, cores, run_client, child_broker,
                                      0, NotLaunched)
                      ELSE spawn_windows(Len(core_ids), cores, 0, NotLaunched)
       IN launched' = [spawned EXCEPT
                          !.brokers = Append(@, Launching),
                          !.signals = IF broker = "Ok"
                                      THEN @ \cup kill_all(Launching,
                                                          handles_of(spawned.clients))
                                      ELSE @,
                          !.returned = @ \cup {Returned(Launching, broker)}]
    /\ last' = [op |-> "launch", platform |-> platform, core_ids |-> core_ids,
                cores |-> cores, run_client |-> run_client, broker |-> broker,
                child_broker |-> child_broker]
    /\ UNCHANGED <<setupVars, allocVars, ASAN_ERRORS, hooked, proc,
                   stalked_addresses, observer, feedback, testcase, performed>>

\* ------------------------------------------------------------------------
\* The table of stalked addresses
\* ------------------------------------------------------------------------

\* HashMap::get: Option<&usize>, <<>> for None and <<real>> for Some(real)
real_address_for_stalked(table, stalked) ==
    IF stalked \in DOMAIN table THEN <<table[stalked]>> ELSE <<>>

\* an insertion that keeps the value a key already has
add_stalked_address_once(stalked, real) ==
    /\ proc = "running"
    /\ Tick
    /\ stalked_addresses' = IF stalked \in DOMAIN stalked_addresses
                            THEN stalked_addresses
                            ELSE Insert(stalked_addresses, stalked, real)
    /\ last' = [op |-> "add_stalked_address", stalked |-> stalked, real |-> real,
                previous |-> real_address_for_stalked(stalked_addresses, stalked)]
    /\ UNCHANGED <<setupVars, allocVars, ASAN_ERRORS, hooked, proc, fuzzerVars>>

add_stalked_address(stalked, real) ==
    /\ proc = "running"
    /\ Tick
    /\ stalked_addresses' = Insert(stalked_addresses, stalked, real)
    /\ last' = [op |-> "add_stalked_address", stalked |-> stalked, real |-> real,
                previous |-> real_address_for_stalked(stalked_addresses, stalked)]
    /\ UNCHANGED <<setupVars, allocVars, ASAN_ERRORS, hooked, proc, fuzzerVars>>

\* the pointers passed to release and to the hooks: null, the keys of the
\* live map, the pointers of the blocks in the reuse queue and a pointer
\* that alloc never returned
PtrInputs ==
    {0, StackStart}
        \cup DOMAIN allocations
        \cup UNION {{allocation_queue[b][i].address + page_size :
                        i \in DOMAIN allocation_queue[b]} :
                            b \in DOMAIN allocation_queue}

\* ------------------------------------------------------------------------
\* The specification
\* ------------------------------------------------------------------------

Next ==
    \/ init
    \/ \E requested \in AllocSizes, alignment \in AllocAlignments :
          alloc(requested, alignment)
    \/ \E ptr \in PtrInputs : release(ptr)
    \/ \E ptr \in PtrInputs : hook_free(ptr)
    \/ reset
    \/ check_for_leaks
    \/ pre_exec

Spec == Init /\ [][Next]_vars

\* the fuzzer's side: an observer of either construction, the executions
\* (here: calls of the free hooks) and the feedback
InitFuzzer ==
    /\ new
    /\ observer \in {Ptr} \cup {Owned(e) : e \in OwnedInputs}
    /\ feedback = [errors |-> None]
    /\ testcase = None
    /\ idle

NextFuzzer ==
    \/ init
    \/ pre_exec
    \/ \E ptr \in PtrInputs : hook_free(ptr)
    \/ is_interesting
    \/ append_metadata
    \/ discard_metadata

SpecFuzzer == InitFuzzer /\ [][NextFuzzer]_vars

\* the instrumented target: calls of the hooked allocation routines and of
\* argument-validated routines, from instrumented modules and from other
\* modules, and traps of instrumented accesses
HookSizes == {21}

\* pointers into the blocks of the live map: the block and into it
HookPtrs == UNION {{p, p + 2} : p \in DOMAIN allocations}

HookLengths == {0, 19, 22}

Mnemonics == {<<"l", "d", "r">>, <<"s", "t", "r">>}

NextHooks ==
    \/ init
    \/ \E instrumented \in BOOLEAN, size \in HookSizes :
          replacement_malloc(instrumented, size)
    \/ \E instrumented \in BOOLEAN, ptr \in DOMAIN allocations :
          replacement_free(instrumented, ptr)
    \/ \E instrumented \in BOOLEAN, dest \in HookPtrs, src \in DOMAIN allocations,
          n \in HookLengths \ {0} : replacement_memcpy(instrumented, dest, src, n)
    \/ \E instrumented \in BOOLEAN, dest \in HookPtrs, n \in HookLengths :
          replacement_memset(instrumented, dest, 0, n)
    \/ \E instrumented \in BOOLEAN, dest \in DOMAIN allocations,
          strlen_src \in HookLengths \ {0} :
              replacement_strcpy(instrumented, dest, dest + 2, strlen_src)
    \/ \E mnemonic \in Mnemonics, ptr \in DOMAIN allocations :
          handle_trap(mnemonic, ptr, allocations[ptr].size, 0)

SpecHooks == Init /\ [][NextHooks]_vars

\* every kind of hook, entered from instrumented and from other modules
NextGate ==
    \/ init
    \/ \E instrumented \in BOOLEAN, size \in HookSizes :
          replacement_malloc(instrumented, size)
    \/ \E instrumented \in BOOLEAN, ptr \in PtrInputs :
          replacement_free(instrumented, ptr)
    \/ \E instrumented \in BOOLEAN, ptr \in DOMAIN allocations :
          replacement_realloc(instrumented, ptr, 3)
    \/ \E instrumented \in BOOLEAN, dest \in DOMAIN allocations :
          replacement_memset(instrumented, dest, 0, 22)
    \/ \E instrumented \in BOOLEAN : replacement_mmap(instrumented, page_size)
    \/ \E instrumented \in BOOLEAN, m \in maps, whole \in BOOLEAN :
          replacement_munmap(instrumented, m.start,
                             IF whole THEN m.end - m.start ELSE 0)

SpecGate == Init /\ [][NextGate]_vars

\* realloc of live, freed, stale and null pointers
ReallocSizes == {0, 3, 21}

NextRealloc ==
    \/ init
    \/ \E size \in ReallocSizes : alloc(size, 8)
    \/ \E ptr \in DOMAIN allocations : hook_free(ptr)
    \/ \E instrumented \in BOOLEAN, ptr \in PtrInputs, size \in ReallocSizes :
          replacement_realloc(instrumented, ptr, size)

SpecRealloc == Init /\ [][NextRealloc]_vars

\* allocations and traps of instrumented accesses
TrapSizes == {3, 21}

\* <<base, displacement, index>> of the trapping instructions: the first
\* byte, the byte after the last one, the last byte of either guard page
\* of a block, a slot of the stack below the mapping that existed when the
\* runtime was initialised, and an address that is not mapped
TrapOperands ==
    UNION {{<<p, 0, 0>>, <<p, allocations[p].size, 0>>, <<p, -1, 0>>,
            <<p - page_size, 0, allocations[p].actual_size - 1>>} :
                p \in DOMAIN allocations}
        \cup {<<current_stack[1], 8, 0>>, <<0, 8, 0>>}

NextTraps ==
    \/ init
    \/ \E size \in TrapSizes : alloc(size, 8)
    \/ \E ptr \in DOMAIN allocations : hook_free(ptr)
    \/ \E mnemonic \in Mnemonics, operands \in TrapOperands :
          handle_trap(mnemonic, operands[1], operands[2], operands[3])

SpecTraps == Init /\ [][NextTraps]_vars

\* the addresses of the copies made by the stalker and of the instructions
\* they were copied from
StalkedInputs == {StackStart, StackStart + 4, StackStart + 8}

RealInputs == {page_size, page_size + 4}

NextStalker ==
    \/ init
    \/ alloc(3, 8)
    \/ \E stalked \in StalkedInputs, real \in RealInputs :
          add_stalked_address(stalked, real)

SpecStalker == Init /\ [][NextStalker]_vars

\* the explored tuples hold up to MaxStages stages, numbered in tuple order
MaxStages == 3

StageResults == {Ok, Err("first"), Err("second")}

\* the tuple list of the stages in the sequence
RECURSIVE tuple_list(_)
tuple_list(stages) ==
    IF stages = <<>> THEN <<>>
    ELSE <<Head(stages), tuple_list(Tail(stages))>>

StagesTuples ==
    UNION {{tuple_list([i \in 1..n |-> Stage(i, results[i])]) :
               results \in [1..n -> StageResults]} : n \in 0..MaxStages}

CorpusIdxs == {0, 1}

NextStages ==
    \E stages \in StagesTuples, corpus_idx \in CorpusIdxs :
        call_perform_all(stages, corpus_idx)

SpecStages == Init /\ [][NextStages]_vars

\* core_affinity::get_core_ids() of the explored machines: two or three
\* cores
CoreIds == {<<0, 1>>, <<0, 1, 2>>}

\* the explored `cores` lists hold up to MaxCoresListed core ids, among
\* them one that no explored machine has
MaxCoresListed == 2

CoresLists == UNION {[1..n -> {0, 1, 2, 5}] : n \in 0..MaxCoresListed}

\* run_client never returns, or returns Ok(()) or an error
RunClient == {"never", "Ok", "Err"}

\* the result a broker's RestartingMgr::launch ends with
BrokerEnds == {"Ok", "Err"}

\* the explored launches; run_client and the end of a child's broker are
\* varied where launch depends on them: run_client runs in a forked child
\* on unix only, and a child starts a broker only after run_client
\* returned Ok
Launches ==
    {l \in [platform : {"unix", "windows"}, core_ids : CoreIds, cores : CoresLists,
            run_client : RunClient, broker : BrokerEnds, child_broker : BrokerEnds] :
        /\ l.platform = "windows" => l.run_client = "never"
        /\ l.run_client # "Ok" => l.child_broker = "Ok"}

NextLauncher ==
    \E l \in Launches :
        launch(l.platform, l.core_ids, l.cores, l.run_client, l.broker, l.child_broker)

SpecLauncher == Init /\ [][NextLauncher]_vars

\* request sizes below, at and above a multiple of the page size
ExactSizes == {3, 2 * page_size, 50}

NextSizes ==
    \/ init
    \/ \E size \in ExactSizes : alloc(size, 8)
    \/ \E ptr \in DOMAIN allocations : hook_free(ptr)
    \/ reset

SpecSizes == Init /\ [][NextSizes]_vars

\* the addresses looked up: every eighth byte of the pages an allocation
\* may be mapped at
LookupPtrs == {8 * k : k \in 0..(2 * (HeapPages + 1))}

\* the hints: the base of a record, the pointer of a record, and null
LookupHints ==
    {0} \cup DOMAIN allocations
        \cup {allocations[ptr].address : ptr \in DOMAIN allocations}

NextLookup ==
    \/ init
    \/ alloc(3, 8)
    \/ \E ptr \in DOMAIN allocations : hook_free(ptr)
    \/ \E ptr \in LookupPtrs, hint_base \in LookupHints :
          call_find_metadata(ptr, hint_base)

SpecLookup == Init /\ [][NextLookup]_vars

\* request sizes around the limit of alloc
LimitSizes == {0, 3, MaxAllocSize, MaxAllocSize + 1}

NextLimits ==
    \/ init
    \/ \E size \in LimitSizes : alloc(size, 8)
    \/ \E ptr \in DOMAIN allocations : hook_free(ptr)
    \/ reset

SpecLimits == Init /\ [][NextLimits]_vars

\* the sizes of the blocks the checked accesses are made to
BlobAllocSizes == {5}

\* the access sizes of the two kinds of blobs
PowerSizes == {1, 2, 4, 8, 16}

ExactBlobSizes == {3, 6, 12, 24, 32, 48, 64}

\* the addresses accessed: from the byte below a block to the byte after
\* its last one
BlobAddresses ==
    UNION {(ptr - 1)..(ptr + allocations[ptr].size) : ptr \in DOMAIN allocations}

NextBlobs ==
    \/ init
    \/ \E size \in BlobAllocSizes : alloc(size, 8)
    \/ \E ptr \in DOMAIN allocations : hook_free(ptr)
    \/ \E size \in PowerSizes, address \in BlobAddresses :
          blob_check_mem(size, address)
    \/ \E size \in ExactBlobSizes, address \in BlobAddresses :
          blob_check_mem_exact(size, address)

SpecBlobs == Init /\ [][NextBlobs]_vars

\* the size of the blocks the checked ranges lie in and around: two whole
\* shadow bytes and three bits of the next
CheckedAllocSize == 19

\* the ranges checked: they start from the byte below a block on and end
\* at most one byte after its last one
CheckedRanges ==
    UNION {UNION {{<<ptr + o, n>> : n \in 0..(allocations[ptr].size + 1 - o)}
                  : o \in (0 - 1)..allocations[ptr].size}
           : ptr \in DOMAIN allocations}

NextShadowCheck ==
    \/ init
    \/ alloc(CheckedAllocSize, 8)
    \/ \E ptr \in DOMAIN allocations : hook_free(ptr)
    \/ \E r \in CheckedRanges : call_shadow_check_func(r[1], r[2])

SpecShadowCheck == Init /\ [][NextShadowCheck]_vars

\* the target addresses translated: the first and the last byte of every
\* group of 8, up to twice what the larger shadow covers
TranslatedAddresses ==
    UNION {{8 * k, 8 * k + 7} : k \in 0..(2 ^ (ShadowBitHigh + 1) - 1)}

NextShadowAddress ==
    \/ init
    \/ \E address \in TranslatedAddresses : shadow_address(address)

SpecShadowAddress == Init /\ [][NextShadowAddress]_vars

\* the registers at the instrumented instruction: x0 and x29 point to a
\* block, x1 holds the index 1, sp is the lowest slot of the stack
Cpus ==
    {[x |-> [r \in 0..30 |-> IF r \in {0, 29} THEN p ELSE IF r = 1 THEN 1 ELSE 0],
      sp |-> current_stack[1], pc |-> page_size \div 2] :
        p \in DOMAIN allocations}

BaseRegs == {X(0), X(29), SP}

IndexRegs == {NoReg, W(1), XZR}

Displacements == {0 - 1, 3}

NextReport ==
    \/ init
    \/ alloc(3, 8)
    \/ \E cpu \in Cpus, base_reg \in BaseRegs,
          displacement \in Displacements, index_reg \in IndexRegs :
              report(cpu, <<"l", "d", "r">>, base_reg, displacement, index_reg)

SpecReport == Init /\ [][NextReport]_vars

\* the alignments and the sizes the aligned allocation functions are
\* called with, and the variable posix_memalign stores the pointer to
AlignmentArgs == {8, 2 * page_size}

SizeArgs == {8, 21}

PptrArg == StackStart

\* the C calls memalign(alignment, size), posix_memalign(&p, alignment,
\* size) and operator new(size, align_val_t(alignment))
NextAligned ==
    \/ init
    \/ \E alignment \in AlignmentArgs, size \in SizeArgs, instrumented \in BOOLEAN :
          replacement_memalign(instrumented, alignment, size)
    \/ \E alignment \in AlignmentArgs, size \in SizeArgs, instrumented \in BOOLEAN :
          replacement_posix_memalign(instrumented, PptrArg, alignment, size)
    \/ \E alignment \in AlignmentArgs, size \in SizeArgs, instrumented \in BOOLEAN :
          replacement__ZnwmSt11align_val_t(instrumented, size, alignment)
    \/ \E ptr \in DOMAIN allocations : hook_free(ptr)

SpecAligned == Init /\ [][NextAligned]_vars

\* realloc and malloc_usable_size of live, freed, stale and null pointers
NextUsableSize ==
    \/ init
    \/ alloc(3, 8)
    \/ \E ptr \in DOMAIN allocations : hook_free(ptr)
    \/ \E instrumented \in BOOLEAN, ptr \in PtrInputs :
          replacement_realloc(instrumented, ptr, 3)
    \/ \E instrumented \in BOOLEAN, ptr \in PtrInputs :
          replacement_malloc_usable_size(instrumented, ptr)

SpecUsableSize == Init /\ [][NextUsableSize]_vars

\* the lengths passed with the pointer of a block of 3 bytes, and the file
\* descriptor and the stream of the calls
ArgLengths == {3, 5}

NextArgKinds ==
    \/ init
    \/ alloc(3, 8)
    \/ \E buf \in DOMAIN allocations, count \in ArgLengths : hook_write(1, buf, count)
    \/ \E buf \in DOMAIN allocations, count \in ArgLengths : hook_read(0, buf, count)
    \/ \E str \in DOMAIN allocations, size \in ArgLengths : hook_fgets(str, size, 0)
    \/ \E s1 \in DOMAIN allocations, s2 \in DOMAIN allocations, n \in ArgLengths :
          hook_memcmp(s1, s2, n)
    \/ \E dest \in DOMAIN allocations, src \in DOMAIN allocations, n \in ArgLengths :
          hook_memcpy(dest, src, n)
    \/ \E dest \in DOMAIN allocations, n \in ArgLengths : hook_memset(dest, 0, n)

SpecArgKinds == Init /\ [][NextArgKinds]_vars

TypeOK ==
    /\ proc \in {"running", "terminated"}
    /\ \A k \in DOMAIN allocations : k % page_size = 0
    /\ \A a \in DOMAIN shadow : shadow[a] \in 0..255

\* ------------------------------------------------------------------------
\* Properties
\* ------------------------------------------------------------------------

\* every shadow byte of the bytes of [start, end) is zero in mem
AllPoisoned(mem, start, end) ==
    \A b \in start..(end - 1) : mem[map_to_shadow(b)] = 0

\* C1: for every live-map entry that is not freed, served at pointer p with
\* size s, every byte of [p, p+s) is addressable in shadow memory, and the
\* guard page before p and the guard page at the end of the mapping have
\* all-zero shadow; for fresh mappings and for blocks from the reuse queue.
C1_LiveAllocationAddressable ==
    \A p \in DOMAIN allocations :
        LET metadata == allocations[p]
            mapping_end == p - page_size + metadata.actual_size
        IN ~metadata.freed =>
              /\ \A b \in p..(p + metadata.size - 1) : Addressable(shadow, b)
              /\ AllPoisoned(shadow, p - page_size, p)
              /\ AllPoisoned(shadow, mapping_end - page_size, mapping_end)

\* a block of the reuse queue was served for a size that ends inside a
\* shadow byte, next to another allocation that is still live
C1_Witness ==
    /\ last.op = "alloc"
    /\ last.reused
    /\ last.ret \in DOMAIN allocations
    /\ ~allocations[last.ret].freed
    /\ allocations[last.ret].size % 8 # 0
    /\ allocations[last.ret].actual_size > round_up_to_page(last.size) + 2 * page_size

\* C2: every live-map entry that was released has freed == true and every
\* shadow byte of its user range [p, p+size) is zero; the release of a
\* pointer of the live map leaves its entry freed.
C2_ReleasedAllocationPoisoned ==
    /\ \A p \in DOMAIN allocations :
          allocations[p].freed => AllPoisoned(shadow, p, p + allocations[p].size)
    /\ (last.op = "release" /\ last.ptr \in DOMAIN allocations) =>
          /\ allocations[last.ptr].freed
          /\ AllPoisoned(shadow, last.ptr, last.ptr + allocations[last.ptr].size)

\* an allocation whose size ends inside a shadow byte was released
C2_Witness ==
    /\ last.op = "release"
    /\ last.ptr \in DOMAIN allocations
    /\ allocations[last.ptr].freed
    /\ allocations[last.ptr].size % 8 # 0

\* C3: after every successful alloc(0, _), fresh or reused, the live-map
\* entry of the returned pointer has is_malloc_zero == true and size == 16,
\* so its usable size is 16; after alloc(s, _) with s > 0 the entry's
\* is_malloc_zero is false.
C3_MallocZeroRecorded ==
    (last.op = "alloc" /\ last.ret # 0) =>
        /\ last.ret \in DOMAIN allocations
        /\ last.size = 0 =>
              /\ allocations[last.ret].is_malloc_zero
              /\ allocations[last.ret].size = 16
              /\ get_usable_size(last.ret) = 16
        /\ last.size > 0 => ~allocations[last.ret].is_malloc_zero

\* the mapping size alloc computes for a request
RoundedRequest(requested) ==
    round_up_to_page(IF requested = 0 THEN 16 ELSE requested) + 2 * page_size

\* the buckets of the reuse queue that hold a record of at least this size
FittingBuckets(size) ==
    {b \in DOMAIN allocation_queue : allocation_queue[b] # <<>> /\ b >= size}

ReleaseStep(ptr) ==
    /\ last'.op = "release"
    /\ last'.ptr = ptr
    /\ steps' = steps + 1

\* C5: release(p) of a live-map entry with freed == true appends exactly
\* one DoubleFree error carrying p and a copy of the metadata, and leaves
\* the entry in the live map, freed and with its user range poisoned;
\* release(p) of an entry that is not freed appends no error. So n
\* releases in a row of one live allocation append n-1 DoubleFree errors.
C5_DoubleFree ==
    [][\A p \in DOMAIN allocations :
          ReleaseStep(p) =>
             /\ ASAN_ERRORS'.errors =
                   IF allocations[p].freed
                   THEN Append(ASAN_ERRORS.errors, DoubleFree(p, allocations[p]))
                   ELSE ASAN_ERRORS.errors
             /\ p \in DOMAIN allocations'
             /\ allocations'[p].freed
             /\ AllPoisoned(shadow', p, p + allocations'[p].size)]_vars

\* one allocation was released three times: two DoubleFree errors
C5_Witness ==
    /\ last.op = "release"
    /\ last.ptr \in DOMAIN allocations
    /\ Len(ASAN_ERRORS.errors) = 2
    /\ \A i \in 1..2 :
          /\ ASAN_ERRORS.errors[i].kind = "DoubleFree"
          /\ ASAN_ERRORS.errors[i].ptr = last.ptr
          /\ ASAN_ERRORS.errors[i].metadata.freed

\* C6: release(p) of a non-null pointer that is no key of the live map
\* appends exactly one UnallocatedFree(p) error and changes neither the
\* live map, the reuse queue nor shadow memory; release(null) and the free
\* hooks called with null append nothing and change nothing.
C6_UnallocatedFree ==
    [][/\ \A p \in PtrInputs \ DOMAIN allocations :
             (ReleaseStep(p) /\ p # 0) =>
                /\ ASAN_ERRORS'.errors = Append(ASAN_ERRORS.errors, UnallocatedFree(p))
                /\ UNCHANGED <<allocations, allocation_queue, shadow>>
       /\ (/\ last'.op \in {"release", "hook_free"}
           /\ last'.ptr = 0
           /\ steps' = steps + 1) =>
              UNCHANGED <<allocations, allocation_queue, shadow, ASAN_ERRORS, proc>>]_vars

\* the pointer of a block that went back to the reuse queue was released,
\* and reported as the second error of the run
C6_Witness ==
    /\ last.op = "release"
    /\ last.ptr # 0
    /\ last.ptr \notin DOMAIN allocations
    /\ \E b \in DOMAIN allocation_queue : \E i \in DOMAIN allocation_queue[b] :
          allocation_queue[b][i].address + page_size = last.ptr
    /\ Len(ASAN_ERRORS.errors) = 2
    /\ ASAN_ERRORS.errors[2] = UnallocatedFree(last.ptr)

\* C7: release removes no entry from the live map: in every step that is
\* not a reset, every key of the live map stays a key, and an entry that is
\* freed stays freed; entries leave the live map only through reset.
C7_ReleasedEntryStays ==
    [][last'.op # "reset" =>
          \A p \in DOMAIN allocations :
             /\ p \in DOMAIN allocations'
             /\ allocations[p].freed => allocations'[p].freed]_vars

\* a released entry is still in the live map, freed, after a later alloc
\* that was served another block
C7_Witness ==
    /\ last.op = "alloc"
    /\ last.ret # 0
    /\ \E p \in DOMAIN allocations : p # last.ret /\ allocations[p].freed

\* the records a step pushed onto the bucket b of the reuse queue
Pushed(b) ==
    LET old == IF b \in DOMAIN allocation_queue THEN allocation_queue[b] ELSE <<>>
    IN SubSeq(allocation_queue'[b], Len(old) + 1, Len(allocation_queue'[b]))

\* a step of reset: the live map is emptied, the records that were in the
\* queue are kept, and every record of the live map is pushed exactly once,
\* onto the bucket of its actual_size, as Queued(record), with the shadow
\* of its user range poisoned
ResetLaw(Queued(_)) ==
    (last'.op = "reset" /\ steps' = steps + 1) =>
        /\ allocations' = EmptyMap
        /\ \A b \in DOMAIN allocation_queue :
              /\ b \in DOMAIN allocation_queue'
              /\ Len(allocation_queue'[b]) >= Len(allocation_queue[b])
              /\ SubSeq(allocation_queue'[b], 1, Len(allocation_queue[b]))
                    = allocation_queue[b]
        /\ \A p \in DOMAIN allocations :
              /\ allocations[p].actual_size \in DOMAIN allocation_queue'
              /\ Cardinality({i \in DOMAIN Pushed(allocations[p].actual_size) :
                     Pushed(allocations[p].actual_size)[i] = Queued(allocations[p])}) = 1
              /\ AllPoisoned(shadow', p, p + allocations[p].size)
        /\ \A b \in DOMAIN allocation_queue' : \A i \in DOMAIN Pushed(b) :
              \E p \in DOMAIN allocations :
                 b = allocations[p].actual_size /\ Pushed(b)[i] = Queued(allocations[p])

\* a record with size, both flags and both backtraces cleared
ClearedAll(metadata) ==
    [metadata EXCEPT
        !.size = 0, !.freed = FALSE, !.is_malloc_zero = FALSE,
        !.allocation_site_backtrace = "None", !.release_site_backtrace = "None"]

\* a record with size, freed and both backtraces cleared
ClearedButZeroFlag(metadata) ==
    [metadata EXCEPT
        !.size = 0, !.freed = FALSE,
        !.allocation_site_backtrace = "None", !.release_site_backtrace = "None"]

\* C8 as stated: reset empties the live map and pushes every record of it
\* exactly once onto the bucket of its actual_size, with its user range
\* poisoned, size 0, freed and is_malloc_zero cleared and both backtraces
\* cleared; address and actual_size unchanged, queued records kept.
C8_ResetClearsAllFlags == [][ResetLaw(ClearedAll)]_vars

\* C8 amended: as above, but is_malloc_zero is left as it was.
C8_ResetKeepsZeroFlag == [][ResetLaw(ClearedButZeroFlag)]_vars

\* reset pushed a record whose is_malloc_zero is set, and the queue holds
\* another record besides it
C8_Witness ==
    /\ last.op = "reset"
    /\ \E b \in DOMAIN allocation_queue : \E i \in DOMAIN allocation_queue[b] :
          /\ allocation_queue[b][i].is_malloc_zero
          /\ \E c \in DOMAIN allocation_queue : \E j \in DOMAIN allocation_queue[c] :
                <<b, i>> # <<c, j>>

\* the errors a step appended to the buffer
Reported == SubSeq(ASAN_ERRORS'.errors, Len(ASAN_ERRORS.errors) + 1,
                   Len(ASAN_ERRORS'.errors))

\* the keys of the live-map entries that are not freed
Unfreed == {p \in DOMAIN allocations : ~allocations[p].freed}

\* a step of check_for_leaks
LeakCheckStep == last'.op = "check_for_leaks" /\ steps' = steps + 1

\* check_for_leaks changes neither the live map, the queue nor the shadow,
\* and only appends Leak errors of unfreed entries, each at most once
LeaksOnly ==
    /\ UNCHANGED <<allocations, allocation_queue, shadow>>
    /\ SubSeq(ASAN_ERRORS'.errors, 1, Len(ASAN_ERRORS.errors)) = ASAN_ERRORS.errors
    /\ \A i \in DOMAIN Reported :
          /\ Reported[i].kind = "Leak"
          /\ \E p \in Unfreed : Reported[i].metadata = allocations[p]
          /\ \A j \in DOMAIN Reported : Reported[j] = Reported[i] => j = i

\* C9 as stated: check_for_leaks appends exactly one Leak error for every
\* live-map entry with freed == false, none for a freed entry, and changes
\* neither the live map, the queue nor shadow memory.
C9_OneLeakPerUnfreedEntry ==
    [][LeakCheckStep => (LeaksOnly /\ Len(Reported) = Cardinality(Unfreed))]_vars

\* C9 amended: so it is when asan_continue_after_error is set; when it is
\* not, check_for_leaks appends the Leak of one unfreed entry, if there is
\* any, and the process terminates.
C9_OneLeakPerUnfreedEntryIfContinue ==
    [][LeakCheckStep =>
          /\ LeaksOnly
          /\ IF options.asan_continue_after_error
             THEN Len(Reported) = Cardinality(Unfreed) /\ proc' = "running"
             ELSE IF Unfreed = {}
                  THEN Reported = <<>> /\ proc' = "running"
                  ELSE Len(Reported) = 1 /\ proc' = "terminated"]_vars

\* check_for_leaks reported two unfreed allocations and went on
C9_Witness ==
    /\ last.op = "check_for_leaks"
    /\ proc = "running"
    /\ Len(ASAN_ERRORS.errors) = 2
    /\ \A i \in 1..2 : ASAN_ERRORS.errors[i].kind = "Leak"
    /\ Cardinality(Unfreed) = 2

\* C10: the error buffer is append-only between two pre_exec calls: a step
\* that is neither the observer's pre_exec nor the runtime's init keeps the
\* errors of the buffer, in their order, in front of those it reports.
C10_ErrorsAppendOnly ==
    [][last'.op \notin {"pre_exec", "init"} =>
          /\ ASAN_ERRORS'.is_some = ASAN_ERRORS.is_some
          /\ Len(ASAN_ERRORS'.errors) >= Len(ASAN_ERRORS.errors)
          /\ SubSeq(ASAN_ERRORS'.errors, 1, Len(ASAN_ERRORS.errors))
                = ASAN_ERRORS.errors]_vars

\* an UnallocatedFree was reported, then the DoubleFree of the last release:
\* the buffer lists them in that order
C10_Witness ==
    /\ last.op = "release"
    /\ last.ptr \in DOMAIN allocations
    /\ Len(ASAN_ERRORS.errors) = 2
    /\ ASAN_ERRORS.errors[1].kind = "UnallocatedFree"
    /\ ASAN_ERRORS.errors[2].kind = "DoubleFree"
    /\ ASAN_ERRORS.errors[2].ptr = last.ptr

\* the errors appended to the process-wide buffer by the step
Appended ==
    SubSeq(ASAN_ERRORS'.errors, Len(ASAN_ERRORS.errors) + 1, Len(ASAN_ERRORS'.errors))

\* C11: for an observer of either construction, pre_exec leaves errors()
\* without any error, and every step of the execution that follows adds to
\* what errors() yields exactly the errors reported by that step; so after
\* pre_exec and one execution errors() yields the errors of that execution.
C11_ObserverYieldsExecutionErrors ==
    [][/\ last'.op = "pre_exec" =>
            observer_errors(observer', ASAN_ERRORS').errors = <<>>
       /\ last'.op \notin {"pre_exec", "init"} =>
            observer_errors(observer', ASAN_ERRORS').errors =
                observer_errors(observer, ASAN_ERRORS).errors \o Appended]_vars

\* the same, for the observer built by AsanErrorsObserver::new only
C11_BorrowedObserverYieldsExecutionErrors ==
    [][observer.tag = "Ptr" =>
          /\ last'.op = "pre_exec" =>
               observer_errors(observer', ASAN_ERRORS').errors = <<>>
          /\ last'.op \notin {"pre_exec", "init"} =>
               observer_errors(observer', ASAN_ERRORS').errors =
                   observer_errors(observer, ASAN_ERRORS).errors \o Appended]_vars

\* C19: is_interesting returns true iff the observer's error list is
\* present and non-empty; an append_metadata that follows a true result
\* attaches to the test case a copy of exactly the list the observer yields,
\* and discard_metadata drops the copy the feedback stored.
C19_FeedbackFollowsObserver ==
    [][/\ last'.op = "is_interesting" =>
            last'.ret = (/\ observer_errors(observer, ASAN_ERRORS).is_some
                         /\ observer_errors(observer, ASAN_ERRORS).errors # <<>>)
       /\ (last.op = "is_interesting" /\ last.ret = TRUE
                /\ last'.op = "append_metadata") =>
            testcase' = Some(observer_errors(observer, ASAN_ERRORS).errors)
       /\ last'.op = "discard_metadata" => feedback'.errors = None]_vars

\* an execution reported an error, is_interesting returned true and
\* append_metadata attached the list to the test case
C19_Witness ==
    /\ last.op = "append_metadata"
    /\ observer.tag = "Ptr"
    /\ testcase.is_some
    /\ Len(testcase.errors) = 1
    /\ testcase.errors = ASAN_ERRORS.errors

\* the step called the underlying libc routine of a hooked function
LibcRan == "real" \in DOMAIN last' /\ last'.real # <<>>

\* the step resumed the target after the trapping instruction
Resumed == last'.op = "handle_trap" /\ last'.resumed

\* C12: with asan_continue_after_error unset, a step that reports appends
\* one error and terminates the process, calling no libc routine and not
\* resuming the target, and the buffer never holds a second error; with
\* asan_continue_after_error set, a step that reports leaves the process
\* running.
C12_FatalReportTerminates ==
    [][IF ~options.asan_continue_after_error
       THEN /\ Len(ASAN_ERRORS'.errors) <= 1
            /\ Appended # <<>> =>
                  /\ proc' = "terminated"
                  /\ ~LibcRan
                  /\ ~Resumed
       ELSE Appended # <<>> => proc' = "running"]_vars

\* memcpy was called with two bad ranges in the fatal configuration: the
\* first one was reported and the process terminated
C12_Witness ==
    /\ ~options.asan_continue_after_error
    /\ proc = "terminated"
    /\ last.op = "memcpy"
    /\ Len(ASAN_ERRORS.errors) = 1
    /\ ~Addressable(shadow, last.args[1])
    /\ ~Addressable(shadow, last.args[2])

\* some byte of the validated range <<kind, ptr, n>> is poisoned
PoisonedRange(check) ==
    \E b \in check[2]..(check[2] + check[3] - 1) : ~Addressable(shadow, b)

ValidatedHooks == {"memcpy", "memset", "strcpy"}

\* C13: in continue mode a call of an argument-validated hook from an
\* instrumented module appends, for each range it validates that holds a
\* poisoned byte, exactly one BadFuncArgRead/BadFuncArgWrite error naming
\* the function, the pointer and the length, in the order of the ranges,
\* and nothing for a fully addressable range; the libc routine is called
\* once with the original arguments and its result is returned.
C13_ArgumentValidation ==
    [][(/\ options.asan_continue_after_error
        /\ last'.op \in ValidatedHooks
        /\ last'.instrumented) =>
          LET bad == SelectSeq(last'.checked, PoisonedRange)
          IN /\ Len(Appended) = Len(bad)
             /\ \A i \in DOMAIN bad :
                   /\ Appended[i].kind \in {"BadFuncArgRead", "BadFuncArgWrite"}
                   /\ Appended[i].name = last'.op
                   /\ Appended[i].ptr = bad[i][2]
                   /\ Appended[i].size = bad[i][3]
             /\ last'.real = <<Real(last'.op, last'.args)>>
             /\ last'.ret = <<Result(last'.op, last'.args)>>]_vars

\* memcpy from a block that is live to a misaligned pointer into a block
\* that is live, with a length that ends in the poisoned part of the last
\* shadow byte of the destination only: one error, for the destination
C13_Witness ==
    /\ options.asan_continue_after_error
    /\ last.op = "memcpy"
    /\ last.instrumented
    /\ last.args[1] % 8 = 2
    /\ last.args[3] = 19
    /\ Len(ASAN_ERRORS.errors) = 1
    /\ ASAN_ERRORS.errors[1].kind = "BadFuncArgWrite"
    /\ ASAN_ERRORS.errors[1].ptr = last.args[1]
    /\ last.real # <<>>

\* the step entered an installed hook from outside the instrumented modules
Uninstrumented == "instrumented" \in DOMAIN last' /\ ~last'.instrumented

\* C14: a hook entered with a return address outside the instrumented
\* module set calls the real function with the arguments it was given and
\* appends no error and leaves the allocator's live map, reuse queue and
\* shadow memory as they were.
C14_GatingRule ==
    [][Uninstrumented =>
          /\ last'.real = <<Real(last'.op, last'.args)>>
          /\ UNCHANGED <<ASAN_ERRORS, allocations, allocation_queue, shadow,
                         shadow_pages, largest_allocation>>]_vars

\* munmap of the mapping of a live allocation succeeded when called from
\* outside the instrumented modules, and the block is still addressable
C14_Witness ==
    /\ last.op = "munmap"
    /\ ~last.instrumented
    /\ last.ret = <<0>>
    /\ \E ptr \in DOMAIN allocations :
          /\ ~allocations[ptr].freed
          /\ allocations[ptr].address = last.args[1]
          /\ Addressable(shadow, ptr)

\* the step was a trap
Trapped == last'.op = "handle_trap"

\* the fault address of the trap lies within the bounds of the stack
FaultInStack ==
    last'.fault >= StackEnd - stack_rlimit /\ last'.fault < StackEnd

\* the mnemonic of the trapping instruction begins with 'l'
FaultIsRead == Head(last'.mnemonic) = "l"

\* C15: handle_trap appends exactly one error per trap: StackOobRead or
\* StackOobWrite for a fault address within the stack bounds (whatever
\* find_metadata would return); otherwise ReadAfterFree/WriteAfterFree for
\* a freed record returned by find_metadata, OobRead/OobWrite for a record
\* that is not freed, and Unknown when find_metadata returns none; a read
\* exactly when the mnemonic begins with 'l'.
C15_TrapClassification ==
    [][Trapped =>
          LET found == find_metadata(allocations, last'.fault, last'.base)
          IN /\ Len(Appended) = 1
             /\ Appended[1].fault = last'.fault
             /\ Appended[1].kind =
                   IF FaultInStack
                   THEN (IF FaultIsRead THEN "StackOobRead" ELSE "StackOobWrite")
                   ELSE IF found = <<>> THEN "Unknown"
                   ELSE IF found[1].freed
                   THEN (IF FaultIsRead THEN "ReadAfterFree" ELSE "WriteAfterFree")
                   ELSE (IF FaultIsRead THEN "OobRead" ELSE "OobWrite")
             /\ (~FaultInStack /\ found # <<>>) => Appended[1].metadata = found[1]]_vars

\* a store to the stack was reported as StackOobWrite while the live map
\* held a record, after a store to a freed block was reported as
\* WriteAfterFree
C15_Witness ==
    /\ last.op = "handle_trap"
    /\ allocations # EmptyMap
    /\ Len(ASAN_ERRORS.errors) = 2
    /\ ASAN_ERRORS.errors[1].kind = "WriteAfterFree"
    /\ ASAN_ERRORS.errors[2].kind = "StackOobWrite"

\* the fault address lies inside the mapping of the allocation: its
\* leading guard page, its user pages or its trailing guard page
InMapping(metadata, address) ==
    address >= metadata.address /\ address < metadata.address + metadata.actual_size

\* C16: a trapped access at an address outside the stack that lies inside
\* the mapping of an allocation is reported with the metadata of that
\* allocation, whatever other allocations exist.
C16_FaultAttributedToItsAllocation ==
    [][(Trapped /\ ~FaultInStack) =>
          \A ptr \in DOMAIN allocations :
              InMapping(allocations[ptr], last'.fault) =>
                  /\ Len(Appended) = 1
                  /\ Appended[1].metadata = allocations[ptr]]_vars

\* C17: a trapped access at an address outside the stack and outside the
\* mapping of every allocation of the live map is reported as Unknown.
C17_UnknownOutsideEveryMapping ==
    [][(/\ Trapped
        /\ ~FaultInStack
        /\ \A ptr \in DOMAIN allocations :
               ~InMapping(allocations[ptr], last'.fault)) =>
          /\ Len(Appended) = 1
          /\ Appended[1].kind = "Unknown"]_vars

\* the step was a call of the realloc hook from an instrumented module
\* with a pointer that was live, and the hook reached its memmove
ReallocMoved ==
    /\ last'.op = "realloc"
    /\ last'.instrumented
    /\ last'.args[1] \in DOMAIN allocations
    /\ ~allocations[last'.args[1]].freed
    /\ last'.real # <<>>

\* C18: the number of bytes the realloc hook, called with a live pointer
\* and a new size n, copies from the old block into the new one never
\* exceeds the size of the new block.
C18_ReallocCopiesAtMostNewSize ==
    [][ReallocMoved =>
          last'.real[1].args[3] <= usable_size(allocations', last'.real[1].args[1])]_vars

\* the other effects of the realloc hook on a live pointer: the old block
\* is freed and poisoned, the new pointer is returned and no error is
\* recorded; realloc(null, n) records no error and returns what alloc does
C18_ReallocReleasesOldBlock ==
    [][(last'.op = "realloc" /\ last'.instrumented /\ proc' = "running") =>
          IF last'.args[1] = 0
          THEN /\ Appended = <<>>
               /\ last'.real = <<>>
               /\ \E served \in alloc_outcomes(last'.args[2], 8) :
                     /\ last'.ret = <<served.ret>>
                     /\ allocations' = served.allocations
                     /\ shadow' = served.shadow
          ELSE ReallocMoved =>
                  /\ Appended = <<>>
                  /\ allocations'[last'.args[1]].freed
                  /\ ~Addressable(shadow', last'.args[1])
                  /\ last'.ret[1] # last'.args[1]
                  /\ last'.ret[1] \in DOMAIN allocations'
                  /\ ~allocations'[last'.ret[1]].freed
                  /\ last'.real[1].args[1] = last'.ret[1]
                  /\ last'.real[1].args[2] = last'.args[1]]_vars

\* C20: no stalked address translates before it is added; after
\* add_stalked_address(s, r) the stalked address s translates to r, also
\* when s had been added with another real address before, and every
\* other stalked address translates as it did; no other operation changes
\* a translation.
C20_StalkedAddressRoundTrip ==
    /\ \A s \in StalkedInputs :
          real_address_for_stalked(stalked_addresses, s) = <<>>
    /\ [][\A s \in StalkedInputs :
            real_address_for_stalked(stalked_addresses', s) =
                IF last'.op = "add_stalked_address" /\ last'.stalked = s
                THEN <<last'.real>>
                ELSE real_address_for_stalked(stalked_addresses, s)]_vars

\* a stalked address that translated to one real address was added again
\* with another one and translates to the latter, while a second stalked
\* address translates and a third one does not
C20_Witness ==
    /\ last.op = "add_stalked_address"
    /\ last.previous # <<>>
    /\ last.previous # <<last.real>>
    /\ real_address_for_stalked(stalked_addresses, last.stalked) = <<last.real>>
    /\ \E s, t \in StalkedInputs \ {last.stalked} :
          /\ real_address_for_stalked(stalked_addresses, s) # <<>>
          /\ real_address_for_stalked(stalked_addresses, t) = <<>>

\* the stages of a tuple list, in tuple order
RECURSIVE stages_of(_)
stages_of(tuple) ==
    IF tuple = <<>> THEN <<>> ELSE <<tuple[1]>> \o stages_of(tuple[2])

\* the positions of the stages of the tuple that return an error
Failing(stages) == {i \in DOMAIN stages : ~stages[i].result.is_ok}

\* the position of the first stage that returns an error, or the number
\* of stages when none does
LastPerformed(stages) ==
    IF Failing(stages) = {} THEN Len(stages)
    ELSE CHOOSE i \in Failing(stages) : \A j \in Failing(stages) : i <= j

\* C21: perform_all performs the stages of the tuple in tuple order, each
\* once and each with the state, executor, manager, scheduler and
\* corpus_idx it was called with, up to and including the first stage that
\* returns an error, whose error it returns; when no stage fails, and on
\* the empty tuple, it returns Ok.
C21_PerformAllInOrder ==
    [][last'.op = "perform_all" =>
          LET stages == stages_of(last'.stages)
              n == LastPerformed(stages)
          IN /\ Len(performed') = n
             /\ \A i \in 1..n :
                   /\ performed'[i].stage = stages[i].id
                   /\ performed'[i].args = last'.args
             /\ last'.ret = IF Failing(stages) = {} THEN Ok
                            ELSE stages[n].result]_vars

\* a tuple of three stages whose second and third stages fail: the first
\* two were performed and the error of the second was returned
C21_Witness ==
    /\ last.op = "perform_all"
    /\ Failing(stages_of(last.stages)) = {2, 3}
    /\ Len(performed) = 2
    /\ last.ret = Err("first")
    /\ stages_of(last.stages)[3].result = Err("second")

\* the number of clients that were started bound to the core
ClientsOn(core) ==
    Cardinality({i \in DOMAIN launched'.clients : launched'.clients[i].core = core})

\* C22: launch starts exactly one client bound to every core id of the
\* cores list that the machine has and no client for any other core, and
\* runs exactly one broker in the launching process, on unix and on
\* Windows.
C22_OneClientPerListedCore ==
    [][last'.op = "launch" =>
          /\ \A core \in 0..5 :
                ClientsOn(core) =
                    IF any_core(last'.cores, core) /\ core < Len(last'.core_ids)
                    THEN 1 ELSE 0
          /\ Cardinality({i \in DOMAIN launched'.brokers :
                              launched'.brokers[i] = Launching}) = 1]_vars

\* the unix implementation alone does what C22 says
C22_UnixOneClientPerListedCore ==
    [][(last'.op = "launch" /\ last'.platform = "unix") =>
          /\ \A core \in 0..5 :
                ClientsOn(core) =
                    IF any_core(last'.cores, core) /\ core < Len(last'.core_ids)
                    THEN 1 ELSE 0
          /\ Cardinality({i \in DOMAIN launched'.brokers :
                              launched'.brokers[i] = Launching}) = 1]_vars

\* the smallest multiple of the page size that is not less than size
RoundUp(size) == ((size + page_size - 1) \div page_size) * page_size

\* C23: every record of the live map has a page-aligned address and an
\* actual_size of round_up(size, page) + 2 * page, for freshly mapped
\* blocks and for blocks served from the reuse queue.
C23_ActualSizeIsRoundedSize ==
    \A ptr \in DOMAIN allocations :
        /\ allocations[ptr].address % page_size = 0
        /\ allocations[ptr].actual_size = RoundUp(allocations[ptr].size) + 2 * page_size

\* C24: every record of the live map carries the pointer alloc returned
\* for it (its key) as its address, and the pointer of every Leak and
\* DoubleFree error in the buffer is a key of the live map.
C24_MetadataAddressIsUserPointer ==
    /\ \A ptr \in DOMAIN allocations : allocations[ptr].address = ptr
    /\ \A i \in DOMAIN ASAN_ERRORS.errors :
          ASAN_ERRORS.errors[i].kind \in {"Leak", "DoubleFree"} =>
              ASAN_ERRORS.errors[i].ptr \in DOMAIN allocations

\* the step was a call of find_metadata
LookedUp == last'.op = "find_metadata"

\* the distance of the looked-up address to the base of the record
Distance(metadata) == abs(last'.ptr - metadata.address)

\* find_metadata returns a record of the live map whose base is at the
\* smallest distance to the address, and none only for an empty live map
C25_NearestRecord ==
    [][LookedUp =>
          IF allocations = EmptyMap THEN last'.ret = <<>>
          ELSE /\ last'.ret # <<>>
               /\ \E ptr \in DOMAIN allocations : allocations[ptr] = last'.ret[1]
               /\ \A ptr \in DOMAIN allocations :
                     Distance(last'.ret[1]) <= Distance(allocations[ptr])]_vars

\* C25: find_metadata(addr, hint_base) returns the record of the live map
\* whose base has the smallest distance to addr, and of two records at
\* the same distance the one whose address equals hint_base.
C25_NearestRecordHintBreaksTies ==
    [][(LookedUp /\ allocations # EmptyMap) =>
          /\ last'.ret # <<>>
          /\ \A ptr \in DOMAIN allocations :
                /\ Distance(last'.ret[1]) <= Distance(allocations[ptr])
                /\ (/\ Distance(last'.ret[1]) = Distance(allocations[ptr])
                    /\ allocations[ptr].address = last'.hint_base) =>
                      last'.ret[1] = allocations[ptr]]_vars

\* the step was a call of alloc
Alloced == last'.op = "alloc" /\ steps' = steps + 1

\* the size alloc works with: 16 for a request of 0
Promoted(requested) == IF requested = 0 THEN 16 ELSE requested

\* C26: alloc with a (zero-promoted) size above 2^30 terminates the
\* process and leaves the live map, the reuse queue and the shadow memory
\* as they were; a smaller size, and 2^30 itself, does not terminate it.
\* An alloc that returns a pointer has inserted one entry into the live
\* map, under the returned pointer, which is one page above the base of
\* the record's mapping; an alloc whose mapping fails returns null and
\* leaves the allocator as it was.
C26_AllocLimitAndResult ==
    [][Alloced =>
          IF Promoted(last'.size) > MaxAllocSize
          THEN /\ proc' = "terminated"
               /\ UNCHANGED <<allocations, allocation_queue, shadow>>
          ELSE /\ proc' = "running"
               /\ IF last'.ret # 0
                  THEN /\ DOMAIN allocations' = DOMAIN allocations \cup {last'.ret}
                       /\ last'.ret \notin DOMAIN allocations
                       /\ \A ptr \in DOMAIN allocations :
                             allocations'[ptr] = allocations[ptr]
                       /\ last'.ret = allocations'[last'.ret].address + page_size
                       /\ \E m \in maps' :
                             /\ m.start = allocations'[last'.ret].address
                             /\ m.end = m.start + allocations'[last'.ret].actual_size
                  ELSE UNCHANGED <<allocations, allocation_queue, shadow, maps>>]_vars

\* a request of 2^30 bytes was not refused (its mapping failed and alloc
\* returned null) after a smaller request had been served, and no record
\* was added for it
C26_Witness ==
    /\ last.op = "alloc"
    /\ last.size = MaxAllocSize
    /\ last.ret = 0
    /\ proc = "running"
    /\ Cardinality(DOMAIN allocations) = 1

\* a request of 2^30 + 1 bytes terminated the process
C26_WitnessRefused ==
    /\ last.op = "alloc"
    /\ last.size = MaxAllocSize + 1
    /\ proc = "terminated"
    /\ allocations # EmptyMap

\* one of the size bytes from address on is poisoned
AnyPoisoned(address, size) ==
    \E b \in address..(address + size - 1) : ~Addressable(shadow, b)

\* C27: the blob of an access of 1, 2, 4, 8 or 16 bytes falls through to
\* the branch to report exactly when one of the accessed bytes is poisoned.
C27_PowerBlobReportsPoisonedAccess ==
    [][last'.op = "blob_check_mem" =>
          (last'.reported <=> AnyPoisoned(last'.address, last'.size))]_vars

\* the blob of an access of one byte does what C27 says
C27_ByteBlobReportsPoisonedAccess ==
    [][(last'.op = "blob_check_mem" /\ last'.size = 1) =>
          (last'.reported <=> AnyPoisoned(last'.address, last'.size))]_vars

\* C28: the blob of an access of 3, 6, 12, 24, 32, 48 or 64 bytes skips the
\* report only when every accessed byte is addressable.
C28_ExactBlobReportsPoisonedAccess ==
    [][last'.op = "blob_check_mem_exact" =>
          (AnyPoisoned(last'.address, last'.size) => last'.reported)]_vars

\* every one of the n bytes from ptr on is addressable
AllAddressable(ptr, n) ==
    \A b \in ptr..(ptr + n - 1) : Addressable(shadow, b)

\* the live block a checked range starts in, at or one byte below
CheckedBlocks(ptr) ==
    {p \in DOMAIN allocations :
        /\ ~allocations[p].freed
        /\ ptr \in (p - 1)..(p + allocations[p].size)}

\* C29: shadow_check_func(ptr, n) returns 1 exactly when every byte of
\* [ptr, ptr + n) is addressable, and 1 for n = 0; for a block of s bytes at
\* p and a range of n > 0 bytes at p + o it returns 1 exactly when o >= 0
\* and o + n <= s.
C29_ShadowCheckFuncIsExact ==
    [][last'.op = "shadow_check_func" =>
          /\ last'.ret \in {0, 1}
          /\ last'.ret = 1 <=> AllAddressable(last'.ptr, last'.n)
          /\ last'.n = 0 => last'.ret = 1
          /\ \A p \in CheckedBlocks(last'.ptr) :
                last'.n > 0 =>
                    (last'.ret = 1 <=>
                        /\ last'.ptr >= p
                        /\ last'.ptr + last'.n <= p + allocations[p].size)]_vars

\* a range with a misaligned head, whole shadow bytes and a fractional tail
\* was found addressable, in a block whose last byte is not the range's
C29_Witness ==
    /\ last.op = "shadow_check_func"
    /\ last.ret = 1
    /\ last.ptr % 8 # 0
    /\ last.n >= 16
    /\ (last.ptr + last.n) % 8 # 0

\* a range that ends one byte after the block was refused
C29_WitnessRefused ==
    /\ last.op = "shadow_check_func"
    /\ last.ret = 0
    /\ \E p \in CheckedBlocks(last.ptr) :
          /\ last.ptr > p
          /\ last.ptr % 8 # 0
          /\ last.ptr + last.n = p + allocations[p].size + 1

\* C30: the generated code computes, for every target address, the shadow
\* address the allocator computes for it.
C30_GeneratedShadowAddressIsAllocators ==
    last.op = "shadow_address" => last.generated = last.allocator

\* the two agree on the addresses below 1 << (shadow_bit + 3)
C30_AgreeBelowShadowLimit ==
    (last.op = "shadow_address" /\ last.address < 2 ^ (shadow_bit + 3))
        => last.generated = last.allocator

\* the aligned group of 8 bytes the address lies in
GroupOf(x) == (x - (x % 8))..(x - (x % 8) + 7)

\* a shadow memory in which the one bit of the byte x is set
OneBitSet(x) ==
    [a \in 0..(2 ^ (shadow_bit + 1) - 1) |->
        IF a = map_to_shadow(x) THEN 2 ^ (7 - (x % 8)) ELSE 0]

\* C31: shadow(x) = shadow(x - (x & 7)): the 8 bytes of an aligned group
\* share one shadow byte, and each byte has one bit of it, which no other
\* byte of the group has.
C31_GroupSharesShadowByte ==
    last.op = "shadow_address" =>
        /\ last.allocator = map_to_shadow(last.address - (last.address % 8))
        /\ \A y \in GroupOf(last.address) : map_to_shadow(y) = last.allocator
        /\ {y \in GroupOf(last.address) : Addressable(OneBitSet(last.address), y)}
               = {last.address}

\* the shadow address of the last byte of a group was computed
C31_Witness ==
    /\ last.op = "shadow_address"
    /\ last.address % 8 = 7
    /\ last.allocator = map_to_shadow(last.address - 7)

\* the step was a call of the mmap or the munmap hook from instrumented code
MapHook(name) ==
    /\ "instrumented" \in DOMAIN last'
    /\ last'.instrumented
    /\ last'.op = name

\* what C32 says of the mmap hook
MmapHookMapsShadow ==
    MapHook("mmap") =>
        /\ last'.ret # <<>>
        /\ LET res == last'.ret[1]
               length == last'.args[1]
           IN IF res # -1
              THEN /\ \A b \in res..(res + length - 1) : Addressable(shadow', b)
                   /\ \/ pre_allocated_shadow
                      \/ \A b \in res..(res + length - 1) :
                            map_to_shadow(b) \in shadow_pages'
              ELSE UNCHANGED <<shadow, shadow_pages>>

\* what C32 says of the munmap hook, for the calls in Calls
MunmapHookPoisons(Calls) ==
    (MapHook("munmap") /\ last'.args \in Calls) =>
        LET addr == last'.args[1]
            length == last'.args[2]
        IN IF munmap(addr, length) # -1
           THEN /\ last'.ret = <<0>>
                /\ \A b \in addr..(addr + length - 1) : ~Addressable(shadow', b)
           ELSE /\ last'.ret = <<-1>>
                /\ UNCHANGED shadow

\* every call of munmap
AllUnmaps == {<<m.start, n>> : m \in maps, n \in 0..AddressSpace}

\* C32: the mmap hook backs and unpoisons the shadow of the new mapping
\* when the real mmap succeeds and leaves shadow memory alone when it fails;
\* the munmap hook poisons the shadow of the range when the real munmap
\* succeeds and leaves it alone when it fails; both return the real result.
C32_MapHooksTrackShadow ==
    [][MmapHookMapsShadow /\ MunmapHookPoisons(AllUnmaps)]_vars

\* the hooks do what C32 says when the shadow of the range unmapped is
\* backed by memory
C32_MapHooksTrackBackedShadow ==
    [][/\ MmapHookMapsShadow
       /\ MunmapHookPoisons({c \in AllUnmaps : shadow_backed(c[1], c[2])})]_vars

\* C33: the fault address handle_trap computes is the address the faulting
\* instruction accessed: the value its base register held, plus the
\* displacement, plus the value of its index register if it has one.
C33_FaultAddressIsEffectiveAddress ==
    [][last'.op = "report" => last'.fault = last'.effective]_vars

\* the two agree when neither register is sp, xzr or x29
C33_FaultAddressOfGeneralRegisters ==
    [][(/\ last'.op = "report"
        /\ last'.base_reg \notin {SP, XZR, X(29)}
        /\ last'.index_reg \notin {SP, XZR, X(29)})
          => last'.fault = last'.effective]_vars

\* the fault address of an access through sp is not the address accessed
C33_FaultAddressOfStackPointer ==
    [][(last'.op = "report" /\ last'.base_reg = SP /\ last'.index_reg = NoReg)
          => last'.fault = last'.effective]_vars

\* the step was a hooked call of the function, and alloc served a block
ServedBy(name) ==
    /\ "served" \in DOMAIN last'
    /\ last'.op = name
    /\ last'.served # 0

\* the block served has the usable size and the alignment asked for
ServedAsAsked(size, alignment) ==
    /\ usable_size(allocations', last'.served) = size
    /\ last'.served % alignment = 0

\* C34: the block served for memalign(alignment, size) and for
\* posix_memalign(&p, alignment, size) has the usable size of the size
\* argument and an address that is a multiple of the alignment argument;
\* the address served for an aligned operator new is a multiple of its
\* alignment.
C34_AlignedAllocationsAsAsked ==
    [][/\ ServedBy("memalign") => ServedAsAsked(last'.args[2], last'.args[1])
       /\ ServedBy("posix_memalign") => ServedAsAsked(last'.args[3], last'.args[2])
       /\ ServedBy("_ZnwmSt11align_val_t") =>
              last'.served % last'.args[2] = 0]_vars

\* the block served has the usable size of the first of the two numbers
\* passed and starts on a page boundary
C34_ServedFirstArgumentPageAligned ==
    [][/\ ServedBy("memalign") => ServedAsAsked(last'.args[1], page_size)
       /\ ServedBy("posix_memalign") => ServedAsAsked(last'.args[2], page_size)
       /\ ServedBy("_ZnwmSt11align_val_t") =>
              ServedAsAsked(last'.args[1], page_size)]_vars

\* the step was a hooked call of realloc or malloc_usable_size with a
\* pointer that is not null and no key of the live map
BadPointerCall ==
    /\ "instrumented" \in DOMAIN last'
    /\ last'.instrumented
    /\ last'.op \in {"realloc", "malloc_usable_size"}
    /\ last'.args[1] # 0
    /\ last'.args[1] \notin DOMAIN allocations

\* C35: with asan_continue_after_error set, realloc and malloc_usable_size
\* called from instrumented code with a pointer that is not null and not in
\* the live map record an error and return; the process is not terminated.
C35_BadPointerIsRecordedNotFatal ==
    [][(options.asan_continue_after_error /\ BadPointerCall) =>
          /\ proc' = "running"
          /\ last'.ret # <<>>
          /\ ASAN_ERRORS'.is_some
          /\ Len(ASAN_ERRORS'.errors) > Len(ASAN_ERRORS.errors)]_vars

\* such a call always terminates the process and records nothing, unless
\* the pointer is the address alloc serves for the realloc
C35_BadPointerIsFatal ==
    [][(BadPointerCall /\ last'.args[1] \notin DOMAIN allocations') =>
          /\ proc' = "terminated"
          /\ last'.ret = <<>>
          /\ UNCHANGED ASAN_ERRORS]_vars

\* the pointers of the ranges the libc routine writes to, and of those it
\* only reads
WrittenPtrs(name, args) ==
    CASE name \in {"memcpy", "memmove", "strcpy", "memset", "bzero", "fgets"} -> {args[1]}
      [] name = "read" -> {args[2]}
      [] OTHER -> {}

ReadPtrs(name, args) ==
    CASE name \in {"memcpy", "memmove", "strcpy"} -> {args[2]}
      [] name \in {"memcmp", "strcmp"} -> {args[1], args[2]}
      [] name = "write" -> {args[2]}
      [] OTHER -> {}

\* the errors a validated hook of one of the names appended are of the kind
\* of the range they are about
ArgKindsOf(names) ==
    ("checked" \in DOMAIN last' /\ last'.op \in names) =>
        \A i \in DOMAIN Appended : LET e == Appended[i] IN
            /\ e.kind = "BadFuncArgWrite" => e.ptr \in WrittenPtrs(last'.op, last'.args)
            /\ e.kind = "BadFuncArgRead" => e.ptr \in ReadPtrs(last'.op, last'.args)

\* C36: a failed validation is recorded as BadFuncArgWrite exactly when the
\* range is one the libc routine writes to (dest of memcpy, the buffers of
\* memset, read and fgets) and as BadFuncArgRead exactly when it is one the
\* routine only reads (src of memcpy, the arguments of memcmp, the buffer of
\* write).
C36_ErrorKindFollowsAccess ==
    [][ArgKindsOf({"memcpy", "memset", "memcmp", "read", "write", "fgets"})]_vars

\* the errors of memcpy, memset and memcmp are of the kind C36 says
C36_ErrorKindOfMemoryRoutines ==
    [][ArgKindsOf({"memcpy", "memset", "memcmp"})]_vars

\* every client the launch spawned was sent a termination signal by the
\* launching process
AllClientsSignalled ==
    \A i \in DOMAIN launched'.clients :
        [by |-> Launching, to |-> launched'.clients[i].process] \in launched'.signals

\* launch has returned in the launching process
LaunchReturned ==
    /\ last'.op = "launch"
    /\ \E r \in launched'.returned : r.process = Launching

\* C37: whenever launch returns in the broker process, after a broker that
\* ended normally or with an error, every client spawned by that launch has
\* been sent a termination signal.
C37_ClientsSignalledWhenLaunchReturns ==
    [][LaunchReturned => AllClientsSignalled]_vars

\* after a broker that ended normally every spawned client was signalled
C37_ClientsSignalledAfterBrokerOk ==
    [][(LaunchReturned /\ last'.broker = "Ok") => AllClientsSignalled]_vars

\* C38: in the unix launch a forked client never acts as a broker and never
\* signals other clients: only the launching process starts a broker and
\* runs the kill loop.
C38_ForkedClientNeverBroker ==
    [][(last'.op = "launch" /\ last'.platform = "unix") =>
          /\ \A i \in DOMAIN launched'.brokers : launched'.brokers[i] = Launching
          /\ \A sig \in launched'.signals : sig.by = Launching]_vars

\* a forked client whose run_client does not return Ok starts no broker and
\* signals nobody
C38_ForkedClientNeverBrokerUnlessOk ==
    [][(last'.op = "launch" /\ last'.platform = "unix" /\ last'.run_client # "Ok") =>
          /\ \A i \in DOMAIN launched'.brokers : launched'.brokers[i] = Launching
          /\ \A sig \in launched'.signals : sig.by = Launching]_vars

\* the records of the reuse queue, each with its place
Queued(queue) == UNION {{<<b, i>> : i \in DOMAIN queue[b]} : b \in DOMAIN queue}

\* each mapping is held by at most one record of the live map and the reuse
\* queue taken together
EachMappingOnce(allocs, queue) ==
    /\ \A p, q \in DOMAIN allocs : allocs[p].address = allocs[q].address => p = q
    /\ \A x, y \in Queued(queue) :
          queue[x[1]][x[2]].address = queue[y[1]][y[2]].address => x = y
    /\ \A p \in DOMAIN allocs : \A x \in Queued(queue) :
          allocs[p].address # queue[x[1]][x[2]].address

\* C39: after any sequence of alloc, release and reset each mapping appears
\* at most once across the live map and the reuse queue taken together, and
\* alloc never returns a pointer that is a key of the live map at the time
\* of the call; a freed block stays in the live map, freed, until the next
\* reset and is not served again before it.
C39_MappingHeldOnce ==
    [][/\ EachMappingOnce(allocations', allocation_queue')
       /\ (last'.op = "alloc" /\ last'.ret # 0) =>
             last'.ret \notin DOMAIN allocations
       /\ last'.op # "reset" =>
             \A p \in DOMAIN allocations :
                 allocations[p].freed =>
                     p \in DOMAIN allocations' /\ allocations'[p].freed]_vars

\* alloc has served a block of the reuse queue while another block is left
\* on the queue
C39_Witness ==
    /\ last.op = "alloc"
    /\ last.reused
    /\ DOMAIN allocations = {last.ret}
    /\ Queued(allocation_queue) # {}

\* alloc has mapped a fresh block while a freed block that would have
\* fitted is in the live map
C39_WitnessFreedKept ==
    /\ last.op = "alloc"
    /\ ~last.reused
    /\ last.ret # 0
    /\ \E p \in DOMAIN allocations :
          /\ p # last.ret
          /\ allocations[p].freed
          /\ allocations[p].actual_size = allocations[last.ret].actual_size

\* append_metadata is called right after is_interesting returned `ret`
AppendFollows(ret) ==
    /\ last.op = "is_interesting"
    /\ last.ret = ret
    /\ last'.op = "append_metadata"

\* C40: append_metadata attaches only errors of the execution most recently
\* evaluated by is_interesting: when is_interesting returned false for the
\* latest execution, a following append_metadata attaches no AsanErrors
\* metadata to the test case, whatever earlier executions reported.
C40_AppendAttachesLatestExecutionOnly ==
    [][AppendFollows(FALSE) => testcase' = None]_vars

\* after is_interesting returned true, append_metadata attaches the errors
\* the observer yields for that execution
C40_AppendAfterInterestingAttachesLatest ==
    [][AppendFollows(TRUE) =>
          testcase' = Some(observer_errors(observer, ASAN_ERRORS).errors)]_vars

====
